---- MODULE Spec2Model ----
(***************************************************************************)
(* A model of the office_box vendor-review scripts.                        *)
(*                                                                         *)
(*   Spec           scripts/commit_approved_vendor.py  update_central_json *)
(*   SpecDedup      scripts/discover_documents.py  main, the de-duplication *)
(*                  stage (lines 445-485) on any discovery results          *)
(*   SpecDiscovery  scripts/discover_documents.py  main from stage 2 on:    *)
(*                  de-duplicate, fetch and save, render, post; run twice    *)
(*   SpecChecklist  scripts/discover_documents.py                           *)
(*                  format_documents_as_checklist on any arguments           *)
(*   SpecBody       utils/github_api.py  update_issue_body                  *)
(*   SpecToken      utils/rightbrain_api.py  get_rb_token                   *)
(*   SpecTask       utils/rightbrain_api.py  run_rb_task                    *)
(*   SpecMain       scripts/discover_documents.py  main from its first line *)
(*   SpecAnalysis   scripts/consolidate_and_analyze.py  main                *)
(*   SpecRace       scripts/commit_approved_vendor.py  two runs of          *)
(*                  update_central_json on one file, read and write apart    *)
(*   SpecField      parse_form_field of consolidate_and_analyze.py and of   *)
(*                  utils/github_api.py                                      *)
(*   SpecUrls       scripts/discover_documents.py  parse_urls_from_issue_form *)
(*   SpecLookup     utils/rightbrain_api.py  get_task_id_by_name, and       *)
(*                  scripts/update_existing_vendor.py  get_or_create_task_id *)
(*   SpecCommit     scripts/commit_approved_vendor.py  main                *)
(*   SpecManifest   the writers of the manifests: setup_rightbrain.py main, *)
(*                  update_model_manifest.py update_manifest,               *)
(*                  upsert_task_def.py main                                 *)
(*   SpecUpsert     scripts/upsert_task_def.py  main, run again and again   *)
(*                  for one task file in one environment                    *)
(*   SpecMarkdown   scripts/update_existing_vendor.py                       *)
(*                  update_local_markdown_file                              *)
(*                                                                         *)
(* SpecDedup and SpecDiscovery start main at line 445 with any discovery   *)
(* results: the classifier calls at lines 358 and 423 pass seven arguments *)
(* to the four-parameter run_rb_task.                                      *)
(*                                                                         *)
(* Strings that the code inspects character by character are sequences of  *)
(* character codes (65 = "A", 97 = "a"); a calendar date is a day number   *)
(* counted from 2025-01-01 and is formatted by Strftime.                   *)
(***************************************************************************)
EXTENDS Integers, Sequences, FiniteSets, TLC

VARIABLES
    registry,      \* the two central JSON files: file -> [state, records]
    call,          \* the arguments of the last update_central_json call (history)
    before,        \* the array json.load gave that call (history)
    \* discover_documents.py, main
    legal_urls,                     \* parse_urls_from_issue_form(issue_body, "T&Cs")
    security_urls,                  \* parse_urls_from_issue_form(issue_body, "Security Documents URL")
    all_discovered_documents,       \* the items the discovery runs returned
    seen_linked_urls,
    seen_unlinked_names,
    unique_linked_docs,
    unique_unlinked_docs,
    classified_docs_for_checklist,
    disk,                           \* the files in _vendor_analysis_source
    writes,                         \* the files this run has written, in order
    classifier_calls,               \* the URLs this run ran the classifier task on, in order
    remote,                         \* URL -> what the classifier task returns for it
    posted,                         \* the checklist this run handed to update_issue_body
    pc,                             \* where main is
    idx,                            \* the position of the running for loop
    run,                            \* 1: the first run on the issue, 2: the re-run
    first_run,                      \* what the first run posted and wrote (history)
    \* utils/github_api.py, update_issue_body
    issue_body,                     \* the body GitHub holds for the issue
    patch,                          \* the last PATCH request update_issue_body made (history)
    body_outcome,                   \* how the last update_issue_body call ended
    updates,                        \* the number of update_issue_body calls so far
    body_at_start,                  \* the body before the first call (history)
    applied,                        \* the new_content of the calls that succeeded, in order
    \* utils/rightbrain_api.py, get_rb_token
    now,                            \* time.time()
    token_cache,                    \* _token_cache
    token_env,                      \* the environment and the config file of the process
    token_requests,                 \* the number of requests made to the token endpoint
    token_call,                     \* the last get_rb_token call (history)
    token_state,                    \* "running", or how the process ended
    token_steps,                    \* the calls made and the clock steps taken so far
    \* utils/rightbrain_api.py, run_rb_task
    task_env,                       \* the environment and the config file of the process
    task_call,                      \* the last run_rb_task call and its result (history)
    task_state,                     \* "running", or how the process ended
    task_calls,                     \* the number of run_rb_task calls so far
    \* scripts/discover_documents.py, main as a whole process
    main_env,                       \* the environment, the task manifest and ISSUE_BODY
    main_pc,                        \* where main is
    main_end,                       \* "none", or how the process ended
    main_docs,                      \* all_discovered_documents
    main_calls,                     \* the run_rb_task calls of the run, in order (history)
    main_patches,                   \* the PATCH requests of the run, in order (history)
    main_writes,                    \* the files the run wrote, in order (history)
    main_checklist,                 \* the checklist the run rendered
    \* scripts/consolidate_and_analyze.py, main as a whole process
    analysis_env,                   \* the environment, the manifest, the profile, the texts
    analysis_pc,                    \* where main is
    analysis_end,                   \* "none", or how the process ended
    analysis_json,                  \* legal_analysis_json, security_analysis_json, report_json
    analysis_requests,              \* the network requests of the run, in order (history)
    analysis_comments             , \* the comments the run sent to the issue, in order
    \* scripts/commit_approved_vendor.py, two runs of update_central_json on one file
    shared_file,                    \* the registry file both runs use
    file_at_start,                  \* its content before the two runs (history)
    run_data,                       \* summary_data of each run
    run_pc,                         \* where each run is: "start", "read", "done"
    run_records,                    \* all_records of each run
    run_events                    , \* the reads and writes of the file, in order (history)
    \* the parsers of the issue form, applied to one issue body
    form_body,                      \* the issue body
    form_label,                     \* the label asked for
    form_parsed,                    \* "no", or the parser that was applied
    form_value                    , \* what the parser returned
    \* the look-up of a task id by the task's name
    lookup_env,                     \* the manifest, the task files, the task-runner's answers
    lookup_call,                    \* "none", or the function that was called
    lookup_result,                  \* what the call came to
    lookup_trace                  , \* the files read and the requests made, in order
    \* scripts/commit_approved_vendor.py, main as a whole process
    commit_env,                     \* the environment, the comments, the checklist, the files
    commit_pc,                      \* where main is
    commit_end,                     \* "none", or how the process ended
    commit_summary,                 \* summary_data
    commit_writes,                  \* the files written, in order (history)
    commit_source,                  \* the files in _vendor_analysis_source
    commit_archive                , \* the files of approved-terms/<date> that are complete
    \* the task manifest and the model manifest, and the scripts that write them
    task_manifest,                  \* tasks/task_manifest.json
    model_manifest,                 \* config/model_manifest.json
    manifest_call,                  \* the last write of a manifest (history)
    manifest_steps,                 \* how many scripts ran
    upsert_env,                     \* the environment upsert_task_def detects
    upsert_call,                    \* the last run of upsert_task_def (history)
    creates,                        \* create requests of the upserts that succeeded
    upserts                       , \* how many upserts ran
    \* scripts/update_existing_vendor.py, the vendor file
    md_file,                        \* the text of the vendor file
    md_at_start,                    \* the text the file had at first (history)
    md_prev,                        \* the text before the last update (history)
    md_applied                      \* the reports written, in order (history)

regVars == <<registry, call, before>>
discVars == <<legal_urls, security_urls, all_discovered_documents, seen_linked_urls,
              seen_unlinked_names, unique_linked_docs, unique_unlinked_docs,
              classified_docs_for_checklist, disk, writes, classifier_calls, remote,
              posted, pc, idx, run, first_run>>
bodyVars == <<issue_body, patch, body_outcome, updates, body_at_start, applied>>
tokenVars == <<now, token_cache, token_env, token_requests, token_call, token_state,
               token_steps>>
taskVars == <<task_env, task_call, task_state, task_calls>>
mainVars == <<main_env, main_pc, main_end, main_docs, main_calls, main_patches,
              main_writes, main_checklist>>
analysisVars == <<analysis_env, analysis_pc, analysis_end, analysis_json, analysis_requests,
                  analysis_comments>>
raceVars == <<shared_file, file_at_start, run_data, run_pc, run_records, run_events>>
formVars == <<form_body, form_label, form_parsed, form_value>>
lookupVars == <<lookup_env, lookup_call, lookup_result, lookup_trace>>
commitVars == <<commit_env, commit_pc, commit_end, commit_summary, commit_writes, commit_source,
                commit_archive>>
manifestVars == <<task_manifest, model_manifest, manifest_call, manifest_steps, upsert_env,
                  upsert_call, creates, upserts>>
markdownVars == <<md_file, md_at_start, md_prev, md_applied>>
vars == <<regVars, discVars, bodyVars, tokenVars, taskVars, mainVars, analysisVars, raceVars, formVars, lookupVars, commitVars, manifestVars, markdownVars>>
\* what a script leaves alone: the variables of the other scripts
nonRegVars == <<discVars, bodyVars, tokenVars, taskVars, mainVars, analysisVars, raceVars, formVars, lookupVars, commitVars, manifestVars, markdownVars>>
nonDiscVars == <<regVars, bodyVars, tokenVars, taskVars, mainVars, analysisVars, raceVars, formVars, lookupVars, commitVars, manifestVars, markdownVars>>
nonBodyVars == <<regVars, discVars, tokenVars, taskVars, mainVars, analysisVars, raceVars, formVars, lookupVars, commitVars, manifestVars, markdownVars>>
nonTokenVars == <<regVars, discVars, bodyVars, taskVars, mainVars, analysisVars, raceVars, formVars, lookupVars, commitVars, manifestVars, markdownVars>>
nonTaskVars == <<regVars, discVars, bodyVars, tokenVars, mainVars, analysisVars, raceVars, formVars, lookupVars, commitVars, manifestVars, markdownVars>>
nonMainVars == <<regVars, discVars, bodyVars, tokenVars, taskVars, analysisVars, raceVars, formVars, lookupVars, commitVars, manifestVars, markdownVars>>
nonAnalysisVars == <<regVars, discVars, bodyVars, tokenVars, taskVars, mainVars, raceVars, formVars, lookupVars, commitVars, manifestVars, markdownVars>>
nonRaceVars == <<regVars, discVars, bodyVars, tokenVars, taskVars, mainVars, analysisVars, formVars, lookupVars, commitVars, manifestVars, markdownVars>>
nonFormVars == <<regVars, discVars, bodyVars, tokenVars, taskVars, mainVars, analysisVars, raceVars, lookupVars, commitVars, manifestVars, markdownVars>>
nonLookupVars ==
    <<regVars, discVars, bodyVars, tokenVars, taskVars, mainVars, analysisVars, raceVars, formVars,
      commitVars, manifestVars, markdownVars>>
nonCommitVars ==
    <<regVars, discVars, bodyVars, tokenVars, taskVars, mainVars, analysisVars, raceVars, formVars,
      lookupVars, manifestVars, markdownVars>>
nonManifestVars ==
    <<regVars, discVars, bodyVars, tokenVars, taskVars, mainVars, analysisVars, raceVars, formVars,
      lookupVars, commitVars, markdownVars>>
nonMarkdownVars ==
    <<regVars, discVars, bodyVars, tokenVars, taskVars, mainVars, analysisVars, raceVars, formVars,
      lookupVars, commitVars, manifestVars>>

(***************************************************************************)
(* Bounds of the model.                                                    *)
(***************************************************************************)
MaxRecords == 2
MaxDiscovered == 3
MaxFetched == 2
MaxListed == 2
MaxPieces == 3
MaxUpdates == 2
MaxTokenCalls == 3
MaxClockSteps == 3
MaxTaskCalls == 2
MaxMissing == 2
MaxStored == 1
MaxFormPieces == 5
MaxUrlPieces == 5
MaxEntries == 2
MaxComments == 2

(***************************************************************************)
(* Values.                                                                 *)
(***************************************************************************)
None == "None"
\* the text "N/A"
NA == <<78, 47, 65>>
\* a processor_name key that is absent (summary_data.get gives None)
NoName == <<0>>

\* "a", "B", "A": B sorts before a by code and after it case-insensitively;
\* A and a are different names with the same sort key.
ProcessorNames == { <<97>>, <<66>>, <<65>> }

\* what summary_data.get("processor_name") can give: a name, None (key absent),
\* the empty string, or the text "N/A"
NameInputs == ProcessorNames \cup { NoName, <<>>, NA }

RiskInputs == { "High", "Low", "Medium", None }

Files == { "processor", "general" }

\* ISSUE_CLOSED_AT: a day number (a valid ISO date), or text fromisoformat rejects
ClosedDays == { 0, 424 }
BadIso == 0 - 1
ClosedInputs == ClosedDays \cup { BadIso }

(***************************************************************************)
(* datetime: strftime("%Y-%m-%d") of a day number, day 0 = 2025-01-01.     *)
(***************************************************************************)
IsLeap(y) == (y % 4 = 0 /\ y % 100 # 0) \/ y % 400 = 0

DaysInYear(y) == IF IsLeap(y) THEN 366 ELSE 365

DaysInMonth(y, m) ==
    IF m = 2 THEN (IF IsLeap(y) THEN 29 ELSE 28)
    ELSE IF m \in {4, 6, 9, 11} THEN 30 ELSE 31

RECURSIVE CivilFrom(_, _, _)
CivilFrom(y, m, d) ==
    IF d >= DaysInYear(y) /\ m = 1 THEN CivilFrom(y + 1, 1, d - DaysInYear(y))
    ELSE IF d >= DaysInMonth(y, m) THEN CivilFrom(y, m + 1, d - DaysInMonth(y, m))
    ELSE <<y, m, d + 1>>

Strftime(day) == CivilFrom(2025, 1, day)

(***************************************************************************)
(* str.lower and the comparison of two strings.                            *)
(***************************************************************************)
LowerChar(c) == IF c >= 65 /\ c <= 90 THEN c + 32 ELSE c

Lower(s) == [i \in 1..Len(s) |-> LowerChar(s[i])]

RECURSIVE StrLess(_, _)
StrLess(a, b) ==
    IF b = <<>> THEN FALSE
    ELSE IF a = <<>> THEN TRUE
    ELSE IF Head(a) # Head(b) THEN Head(a) < Head(b)
    ELSE StrLess(Tail(a), Tail(b))

(***************************************************************************)
(* update_central_json                                                     *)
(***************************************************************************)
\* The names the module imports from datetime (line 9): timedelta is not one.
timedelta_imported == FALSE

\* lines 106-111
review_days(risk_rating) ==
    LET risk == IF risk_rating = None THEN "medium"
                ELSE IF risk_rating = "High" THEN "high"
                ELSE IF risk_rating = "Low" THEN "low" ELSE "medium"
    IN  IF risk = "high" THEN 180 ELSE IF risk = "low" THEN 730 ELSE 365

\* lines 95-122: the two dates stored in summary_data.  Any exception inside the
\* try (fromisoformat rejecting the text, the unbound name timedelta) ends in
\* the handler, which stores "N/A" twice.
ReviewDates(closed_at, risk_rating) ==
    IF closed_at = BadIso THEN [last |-> NA, next |-> NA]
    ELSE IF ~timedelta_imported THEN [last |-> NA, next |-> NA]
    ELSE [last |-> Strftime(closed_at),
          next |-> Strftime(closed_at + review_days(risk_rating))]

\* list.sort(key=lambda x: x.get("processor_name", "").lower()): stable
SortKey(record) == Lower(record.processor_name)

RECURSIVE InsertByKey(_, _)
InsertByKey(sorted, r) ==
    IF sorted = <<>> THEN <<r>>
    ELSE IF StrLess(SortKey(r), SortKey(sorted[Len(sorted)]))
         THEN Append(InsertByKey(SubSeq(sorted, 1, Len(sorted) - 1), r), sorted[Len(sorted)])
         ELSE Append(sorted, r)

RECURSIVE SortRecords(_)
SortRecords(s) ==
    IF s = <<>> THEN <<>>
    ELSE InsertByKey(SortRecords(SubSeq(s, 1, Len(s) - 1)), s[Len(s)])

\* lines 131-135
LoadRecords(content) == IF content.state \in {"absent", "corrupt"} THEN <<>> ELSE content.records

\* lines 152-153
DumpRecords(all_records) == [state |-> "array", records |-> all_records]

\* a version of FirstMatch that finds no record
NoMatch(all_records, name) == 0

\* lines 137-147: the first record with an equal name is replaced, else append
FirstMatch(all_records, name) ==
    LET hits == { i \in 1..Len(all_records) : all_records[i].processor_name = name }
    IN  IF hits = {} THEN 0 ELSE CHOOSE i \in hits : \A j \in hits : i <= j

\* a version of Upsert that never looks for the existing record
UpsertAlwaysAppends(all_records, summary_data) == Append(all_records, summary_data)

Upsert(all_records, summary_data) ==
    LET i == FirstMatch(all_records, summary_data.processor_name)
    IN  IF i # 0 THEN [all_records EXCEPT ![i] = summary_data]
        ELSE Append(all_records, summary_data)

\* lines 124-127
JsonFile(vendor_type) == IF vendor_type = "processor" THEN "processor" ELSE "general"

Usable(processor_name) == processor_name \notin { NoName, <<>>, NA }

TotalRecords == Len(LoadRecords(registry["processor"])) + Len(LoadRecords(registry["general"]))

update_central_json(name, risk, closed_at, vendor_type) ==
    /\ call' = [processor_name |-> name, risk_rating |-> risk,
                closed_at |-> closed_at, vendor_type |-> vendor_type]
    /\ IF ~Usable(name)
       THEN /\ UNCHANGED registry
            /\ before' = <<>>
       ELSE LET dates == ReviewDates(closed_at, risk)
                summary_data == [processor_name |-> name, risk_rating |-> risk,
                                 last_review_date |-> dates.last,
                                 next_review_date |-> dates.next]
                all_records == LoadRecords(registry[JsonFile(vendor_type)])
            IN  /\ before' = all_records
                /\ registry' = [registry EXCEPT ![JsonFile(vendor_type)] =
                                   DumpRecords(SortRecords(Upsert(all_records, summary_data)))]

UpdateCentralJson ==
    \E name \in NameInputs, risk \in RiskInputs,
       closed_at \in ClosedInputs, vendor_type \in Files :
        /\ \/ ~Usable(name)
           \/ FirstMatch(LoadRecords(registry[JsonFile(vendor_type)]), name) # 0
           \/ TotalRecords < MaxRecords
        /\ update_central_json(name, risk, closed_at, vendor_type)
        /\ UNCHANGED nonRegVars

NoCall == [processor_name |-> NoName, risk_rating |-> None,
           closed_at |-> BadIso, vendor_type |-> "none"]

RegInit ==
    /\ registry \in [Files -> { [state |-> "absent", records |-> <<>>],
                                 [state |-> "corrupt", records |-> <<>>] }]
    /\ call = NoCall
    /\ before = <<>>


(***************************************************************************)
(* discover_documents.py                                                   *)
(***************************************************************************)
BoundedSeq(S, n) == UNION { [1..k -> S] : k \in 0..n }

issue_number == 7

\* "u", "u/" and "v": u and u/ differ by a trailing slash only
UrlU == <<117>>
UrlUSlash == <<117, 47>>
UrlV == <<118>>
Urls == { UrlU, UrlUSlash, UrlV }

\* document names "D" and "P"; unlinked references "R" and "r"
DocNames == { <<68>>, <<80>> }
UnlinkedNames == { <<82>>, <<114>> }

\* "Main T&Cs", "Main Security Page", "unnamed_document"
MainTCs == <<77, 97, 105, 110, 32, 84, 38, 67, 115>>
MainSecurityPage ==
    <<77, 97, 105, 110, 32, 83, 101, 99, 117, 114, 105, 116, 121, 32, 80, 97, 103, 101>>
UnnamedDocument ==
    <<117, 110, 110, 97, 109, 101, 100, 95, 100, 111, 99, 117, 109, 101, 110, 116>>

\* the items of a discovery response: {"document": {...}} or something else
LinkedItem(url, name, status) ==
    [kind |-> "dict", link_type |-> "linked", absolute_url |-> url,
     document_name |-> name, relevance_status |-> status]

UnlinkedItem(name, status) ==
    [kind |-> "dict", link_type |-> "unlinked", absolute_url |-> <<>>,
     document_name |-> name, relevance_status |-> status]

MalformedItem ==
    [kind |-> "malformed", link_type |-> "none", absolute_url |-> <<>>,
     document_name |-> <<>>, relevance_status |-> None]

\* ---- create_safe_filename (lines 16-27) ----
\* the characters of the class [<>:"/\\|?*\s]
UnsafeChars == { 60, 62, 58, 34, 47, 92, 124, 63, 42, 32, 9, 10, 13 }
\* the characters of strip('._ ')
StripChars == { 46, 95, 32 }
NameLimit == 100

RECURSIVE DropUnsafe(_)
DropUnsafe(s) ==
    IF s # <<>> /\ Head(s) \in UnsafeChars THEN DropUnsafe(Tail(s)) ELSE s

\* re.sub(r'[<>:"/\\|?*\s]+', '_', name): each run of unsafe characters becomes one "_"
RECURSIVE SubUnsafe(_)
SubUnsafe(s) ==
    IF s = <<>> THEN <<>>
    ELSE IF Head(s) \in UnsafeChars THEN <<95>> \o SubUnsafe(DropUnsafe(s))
    ELSE <<Head(s)>> \o SubUnsafe(Tail(s))

RECURSIVE LStrip(_)
LStrip(s) == IF s # <<>> /\ Head(s) \in StripChars THEN LStrip(Tail(s)) ELSE s

RECURSIVE RStrip(_)
RStrip(s) ==
    IF s # <<>> /\ s[Len(s)] \in StripChars THEN RStrip(SubSeq(s, 1, Len(s) - 1)) ELSE s

Truncate(s, n) == IF Len(s) > n THEN SubSeq(s, 1, n) ELSE s

\* the file "issue-<issue>-<safe>.txt"
create_safe_filename(name, issue) ==
    LET stripped == RStrip(LStrip(SubUnsafe(name)))
        safe_name == IF stripped = <<>> THEN UnnamedDocument ELSE stripped
    IN  [issue |-> issue, safe |-> Truncate(safe_name, NameLimit)]

\* ---- the classifier task (run_rb_task + extract_text_from_run_data) ----
\* a run: an error object, or a response with the fetched text (or none) and
\* the relevance_categories (or no such key)
ClassifierError ==
    [known |-> TRUE, is_error |-> TRUE, text |-> "", has_categories |-> FALSE, categories |-> <<>>]

ClassifierOk(text, has_categories, categories) ==
    [known |-> TRUE, is_error |-> FALSE, text |-> text,
     has_categories |-> has_categories, categories |-> categories]

ClassifierResults ==
    { ClassifierError,
      ClassifierOk("", TRUE, <<"legal">>),
      ClassifierOk("text", TRUE, <<"legal">>),
      ClassifierOk("text", TRUE, <<"none">>),
      ClassifierOk("text", FALSE, <<>>) }

NoResult ==
    [known |-> FALSE, is_error |-> FALSE, text |-> "", has_categories |-> FALSE, categories |-> <<>>]

\* ---- stage 2, lines 445-485: de-duplicate ----
\* lines 450-454
SeedUrls ==
    (IF legal_urls # <<>> THEN {legal_urls[1]} ELSE {}) \cup
    (IF security_urls # <<>> THEN {security_urls[1]} ELSE {})

\* a version of the loop body that never consults seen_linked_urls
DedupItemKeepsAll(item) ==
    IF item.kind = "dict" /\ item.link_type = "linked" /\ item.absolute_url # <<>>
    THEN /\ seen_linked_urls' = seen_linked_urls \cup {item.absolute_url}
         /\ unique_linked_docs' = Append(unique_linked_docs, item)
         /\ UNCHANGED <<seen_unlinked_names, unique_unlinked_docs>>
    ELSE UNCHANGED <<seen_linked_urls, unique_linked_docs, seen_unlinked_names, unique_unlinked_docs>>

\* lines 458-485, one turn of the loop
DedupItem(item) ==
    IF item.kind # "dict"
    THEN UNCHANGED <<seen_linked_urls, unique_linked_docs, seen_unlinked_names, unique_unlinked_docs>>
    ELSE IF item.link_type = "linked"
    THEN /\ IF item.absolute_url # <<>> /\ item.absolute_url \notin seen_linked_urls
            THEN /\ seen_linked_urls' = seen_linked_urls \cup {item.absolute_url}
                 /\ unique_linked_docs' = Append(unique_linked_docs, item)
            ELSE UNCHANGED <<seen_linked_urls, unique_linked_docs>>
         /\ UNCHANGED <<seen_unlinked_names, unique_unlinked_docs>>
    ELSE IF item.link_type = "unlinked"
    THEN /\ IF item.document_name # <<>> /\ Lower(item.document_name) \notin seen_unlinked_names
            THEN /\ seen_unlinked_names' = seen_unlinked_names \cup {Lower(item.document_name)}
                 /\ unique_unlinked_docs' = Append(unique_unlinked_docs, item)
            ELSE UNCHANGED <<seen_unlinked_names, unique_unlinked_docs>>
         /\ UNCHANGED <<seen_linked_urls, unique_linked_docs>>
    ELSE UNCHANGED <<seen_linked_urls, unique_linked_docs, seen_unlinked_names, unique_unlinked_docs>>

DedupStep ==
    /\ pc = "dedup"
    /\ idx <= Len(all_discovered_documents)
    /\ DedupItem(all_discovered_documents[idx])
    /\ idx' = idx + 1
    /\ UNCHANGED <<legal_urls, security_urls, all_discovered_documents,
                   classified_docs_for_checklist, disk, writes, classifier_calls,
                   remote, posted, pc, run, first_run>>
    /\ UNCHANGED nonDiscVars

\* line 487: the loop is over
DedupDone ==
    /\ pc = "dedup"
    /\ idx > Len(all_discovered_documents)
    /\ pc' = "fetch"
    /\ idx' = 1
    /\ UNCHANGED <<legal_urls, security_urls, all_discovered_documents, seen_linked_urls,
                   seen_unlinked_names, unique_linked_docs, unique_unlinked_docs,
                   classified_docs_for_checklist, disk, writes, classifier_calls,
                   remote, posted, run, first_run>>
    /\ UNCHANGED nonDiscVars

\* ---- save_and_commit_source_text, lines 64-82 ----
\* text.strip() is empty: nothing is written; else the file is (over)written
SavesText(text) == text # ""

\* ---- stage 2, lines 490-533: fetch, classify and save every unique linked document ----
FetchAndClassify ==
    /\ pc = "fetch"
    /\ idx <= Len(unique_linked_docs)
    /\ LET doc == unique_linked_docs[idx]
           doc_url == doc.absolute_url
           doc_name == doc.document_name
           relevance_status ==
               IF doc.relevance_status = None THEN "irrelevant" ELSE doc.relevance_status
           safe_filename == create_safe_filename(doc_name, issue_number)
       IN  \E classifier_run \in ClassifierResults :
             /\ remote[doc_url].known => classifier_run = remote[doc_url]
             /\ remote' = [remote EXCEPT ![doc_url] = classifier_run]
             /\ classifier_calls' = Append(classifier_calls, doc_url)
             /\ IF ~classifier_run.is_error /\ SavesText(classifier_run.text)
                THEN /\ disk' = disk \cup {safe_filename}
                     /\ writes' = Append(writes, [file |-> safe_filename, url |-> doc_url])
                ELSE UNCHANGED <<disk, writes>>
             /\ classified_docs_for_checklist' =
                   Append(classified_docs_for_checklist,
                          [document_name |-> doc_name,
                           document_url |-> doc_url,
                           relevance_status |-> relevance_status,
                           has_categories |-> TRUE,
                           relevance_categories |->
                               IF classifier_run.is_error \/ ~classifier_run.has_categories
                               THEN <<"none">> ELSE classifier_run.categories])
    /\ idx' = idx + 1
    /\ UNCHANGED <<legal_urls, security_urls, all_discovered_documents, seen_linked_urls,
                   seen_unlinked_names, unique_linked_docs, unique_unlinked_docs,
                   posted, pc, run, first_run>>
    /\ UNCHANGED nonDiscVars

\* ---- format_documents_as_checklist, lines 161-260 ----
TitleCase(category) ==
    IF category = "legal" THEN "Legal"
    ELSE IF category = "security" THEN "Security"
    ELSE IF category = "none" THEN "None" ELSE category

\* lines 203-225: the tag of a classified document
TagOf(doc) ==
    LET categories == IF doc.has_categories THEN doc.relevance_categories ELSE <<>>
        NotNone(c) == c # "none"
        filtered_categories == SelectSeq(categories, NotNone)
        final_categories == IF filtered_categories = <<>> THEN <<"none">> ELSE filtered_categories
    IN  IF \E i \in 1..Len(final_categories) : final_categories[i] = "none"
        THEN <<"None">>
        ELSE [i \in 1..Len(final_categories) |-> TitleCase(final_categories[i])]

\* a version of the checkbox that looks at the classifier's categories
IsCheckedByCategories(doc) ==
    doc.has_categories /\ \E i \in 1..Len(doc.relevance_categories) :
                             doc.relevance_categories[i] # "none"

\* lines 227-231: the checkbox of a classified document
IsChecked(doc) ==
    LET relevance_status ==
            IF doc.relevance_status = None THEN "irrelevant" ELSE doc.relevance_status
    IN  relevance_status = "relevant"

OnlineItem(checked, tag, name, issue, url) ==
    [checked |-> checked, tag |-> tag, name |-> name,
     file |-> create_safe_filename(name, issue), url |-> url]

\* lines 188-236
ClassifiedItems(classified_docs, issue) ==
    LET HasUrl(doc) == doc.document_url # <<>>
        listed == SelectSeq(classified_docs, HasUrl)
    IN  [i \in 1..Len(listed) |->
            OnlineItem(IsChecked(listed[i]), TagOf(listed[i]),
                       listed[i].document_name, issue, listed[i].document_url)]

\* lines 239-252
OfflineItems(unlinked_docs) ==
    [i \in 1..Len(unlinked_docs) |->
        [checked |-> FALSE,
         tag |-> <<"Awaiting Document",
                   IF unlinked_docs[i].relevance_status = None THEN "irrelevant"
                   ELSE unlinked_docs[i].relevance_status>>,
         name |-> unlinked_docs[i].document_name]]

format_documents_as_checklist(main_legal, classified_docs, unlinked_docs, main_security, issue) ==
    [online |->
        [i \in 1..Len(main_legal) |->
            OnlineItem(TRUE, <<"Legal">>, MainTCs, issue, main_legal[i])]
        \o [i \in 1..Len(main_security) |->
            OnlineItem(TRUE, <<"Security">>, MainSecurityPage, issue, main_security[i])]
        \o ClassifiedItems(classified_docs, issue),
     offline |-> OfflineItems(unlinked_docs)]

NothingPosted == [online |-> <<>>, offline |-> <<>>]

\* ---- stage 3, lines 540-572: render the checklist and update the issue ----
\* update_issue_body returns, or raises and post_failure_and_exit ends the run
PostChecklist ==
    /\ pc = "fetch"
    /\ idx > Len(unique_linked_docs)
    /\ posted' = format_documents_as_checklist(legal_urls, classified_docs_for_checklist,
                                               unique_unlinked_docs, security_urls, issue_number)
    /\ \E patched \in BOOLEAN : pc' = IF patched THEN "done" ELSE "exit1"
    /\ UNCHANGED <<legal_urls, security_urls, all_discovered_documents, seen_linked_urls,
                   seen_unlinked_names, unique_linked_docs, unique_unlinked_docs,
                   classified_docs_for_checklist, disk, writes, classifier_calls,
                   remote, idx, run, first_run>>
    /\ UNCHANGED nonDiscVars

NoRun == [posted |-> NothingPosted, writes |-> <<>>, classifier_calls |-> <<>>]

\* the workflow is triggered again on the same issue: a new process runs stage 2
\* and 3 on the same discovery results, with the files of the first run on disk
Rerun ==
    /\ pc = "done"
    /\ run = 1
    /\ run' = 2
    /\ first_run' = [posted |-> posted, writes |-> writes, classifier_calls |-> classifier_calls]
    /\ seen_linked_urls' = SeedUrls
    /\ seen_unlinked_names' = {}
    /\ unique_linked_docs' = <<>>
    /\ unique_unlinked_docs' = <<>>
    /\ classified_docs_for_checklist' = <<>>
    /\ writes' = <<>>
    /\ classifier_calls' = <<>>
    /\ posted' = NothingPosted
    /\ pc' = "dedup"
    /\ idx' = 1
    /\ UNCHANGED <<legal_urls, security_urls, all_discovered_documents, disk, remote>>
    /\ UNCHANGED nonDiscVars

\* the state at line 445, for given seeds, discovery results and directory
StageTwo(legal, security, discovered, files) ==
    /\ legal_urls = legal
    /\ security_urls = security
    /\ all_discovered_documents = discovered
    /\ seen_linked_urls = SeedUrls
    /\ seen_unlinked_names = {}
    /\ unique_linked_docs = <<>>
    /\ unique_unlinked_docs = <<>>
    /\ classified_docs_for_checklist = <<>>
    /\ disk = files
    /\ writes = <<>>
    /\ classifier_calls = <<>>
    /\ remote = [u \in Urls |-> NoResult]
    /\ posted = NothingPosted
    /\ pc = "dedup"
    /\ idx = 1
    /\ run = 1
    /\ first_run = NoRun

LegalSeeds == { <<>>, <<UrlU>> }
SecuritySeeds == { <<>>, <<UrlV>> }

\* discovery results are collected only under a seed (lines 316-350, 380-415)
ResultsFor(legal, security, items, n) ==
    IF legal = <<>> /\ security = <<>> THEN { <<>> } ELSE BoundedSeq(items, n)

DedupItems ==
    { LinkedItem(u, n, "relevant") : u \in Urls, n \in DocNames }
    \cup { LinkedItem(<<>>, <<68>>, "relevant"), MalformedItem }
    \cup { UnlinkedItem(n, "relevant") : n \in UnlinkedNames }

DedupInit ==
    \E legal \in LegalSeeds, security \in SecuritySeeds :
        \E discovered \in ResultsFor(legal, security, DedupItems, MaxDiscovered) :
            StageTwo(legal, security, discovered, {})

DiscoveryItems ==
    { LinkedItem(u, n, st) : u \in Urls, n \in DocNames, st \in {"relevant", "irrelevant"} }
    \cup { UnlinkedItem(<<82>>, "relevant") }

\* files that an earlier run or a reviewer left in _vendor_analysis_source
EarlierFiles ==
    { create_safe_filename(<<68>>, issue_number),
      create_safe_filename(<<79>>, issue_number),
      create_safe_filename(<<79>>, issue_number + 1) }

DiscoveryInit ==
    \E legal \in LegalSeeds, security \in SecuritySeeds, files \in SUBSET EarlierFiles :
        \E discovered \in ResultsFor(legal, security, DiscoveryItems, MaxFetched) :
            StageTwo(legal, security, discovered, files)

\* ---- format_documents_as_checklist as a function of its arguments ----
ClassifiedDoc(name, url, status, has_categories, categories) ==
    [document_name |-> name, document_url |-> url, relevance_status |-> status,
     has_categories |-> has_categories, relevance_categories |-> categories]

CategoryLists == { <<"legal">>, <<"none">>, <<"legal", "security">>, <<"none", "legal">>, <<>> }

ChecklistDocs ==
    { ClassifiedDoc(<<68>>, u, st, TRUE, cats) :
        u \in {UrlU, <<>>}, st \in {"relevant", "irrelevant", "check_manually", None},
        cats \in CategoryLists }
    \cup { ClassifiedDoc(<<68>>, UrlU, st, FALSE, <<>>) :
        st \in {"relevant", "irrelevant", "check_manually", None} }

ChecklistInit ==
    \E legal \in LegalSeeds, docs \in BoundedSeq(ChecklistDocs, MaxListed) :
        /\ legal_urls = legal
        /\ security_urls = <<>>
        /\ all_discovered_documents = <<>>
        /\ seen_linked_urls = {}
        /\ seen_unlinked_names = {}
        /\ unique_linked_docs = <<>>
        /\ unique_unlinked_docs = <<>>
        /\ classified_docs_for_checklist = docs
        /\ disk = {}
        /\ writes = <<>>
        /\ classifier_calls = <<>>
        /\ remote = [u \in Urls |-> NoResult]
        /\ posted = NothingPosted
        /\ pc = "render"
        /\ idx = 1
        /\ run = 1
        /\ first_run = NoRun

RenderChecklist ==
    /\ pc = "render"
    /\ posted' = format_documents_as_checklist(legal_urls, classified_docs_for_checklist,
                                               unique_unlinked_docs, security_urls, issue_number)
    /\ pc' = "rendered"
    /\ UNCHANGED <<legal_urls, security_urls, all_discovered_documents, seen_linked_urls,
                   seen_unlinked_names, unique_linked_docs, unique_unlinked_docs,
                   classified_docs_for_checklist, disk, writes, classifier_calls,
                   remote, idx, run, first_run>>
    /\ UNCHANGED nonDiscVars

(***************************************************************************)
(* utils/github_api.py: update_issue_body                                  *)
(***************************************************************************)
\* "<!--CHECKLIST_MARKER-->"
CHECKLIST_MARKER ==
    <<60, 33, 45, 45, 67, 72, 69, 67, 75, 76, 73, 83, 84, 95, 77, 65, 82, 75, 69, 82, 45, 45, 62>>
\* "<!--FAILURE_MARKER-->"
FAILURE_MARKER ==
    <<60, 33, 45, 45, 70, 65, 73, 76, 85, 82, 69, 95, 77, 65, 82, 75, 69, 82, 45, 45, 62>>
\* "\n\n---\n\n"
Separator == <<10, 10, 45, 45, 45, 10, 10>>
\* the characters str.strip() removes: \t \n \v \f \r, 0x1c..0x1f and the space
Whitespace == { 9, 10, 11, 12, 13, 28, 29, 30, 31, 32 }
PayloadLimit == 65000

\* str.find: the 0-based position of the first occurrence of m in s, or -1
Find(s, m) ==
    LET hits == { i \in 1..(Len(s) - Len(m) + 1) :
                    s[i] = m[1] /\ SubSeq(s, i, i + Len(m) - 1) = m }
    IN IF hits = {} THEN 0 - 1
       ELSE (CHOOSE i \in hits : \A j \in hits : i <= j) - 1

\* str.strip()
Strip(s) ==
    IF \A i \in 1..Len(s) : s[i] \in Whitespace THEN <<>>
    ELSE LET first == CHOOSE i \in 1..Len(s) :
                          s[i] \notin Whitespace /\ \A j \in 1..(i - 1) : s[j] \in Whitespace
             last == CHOOSE i \in 1..Len(s) :
                          s[i] \notin Whitespace /\ \A j \in (i + 1)..Len(s) : s[j] \in Whitespace
         IN SubSeq(s, first, last)

\* lines 42-49: the checklist marker if the body has one, else the failure marker
marker_pos(body_content) ==
    LET checklist_pos == Find(body_content, CHECKLIST_MARKER)
        failure_pos == Find(body_content, FAILURE_MARKER)
    IN IF checklist_pos # 0 - 1 THEN checklist_pos
       ELSE IF failure_pos # 0 - 1 THEN failure_pos
       ELSE 0 - 1

\* line 59 whatever the body holds
updated_body_appends(body_content, new_content) ==
    LET separator == IF Strip(body_content) # <<>> THEN Separator ELSE <<>>
    IN Strip(body_content) \o separator \o new_content

\* lines 51-59
updated_body(body_content, new_content) ==
    IF marker_pos(body_content) # 0 - 1
    THEN SubSeq(body_content, 1, marker_pos(body_content)) \o new_content
    ELSE LET separator == IF Strip(body_content) # <<>> THEN Separator ELSE <<>>
         IN Strip(body_content) \o separator \o new_content

\* lines 39-68: the body of the PATCH request
payload(original_body, new_content) ==
    Truncate(Strip(updated_body(original_body, new_content)), PayloadLimit)

\* what the callers pass as new_content: the checklist comment of
\* discover_documents.main and the failure report of post_failure_and_exit
ChecklistComment == CHECKLIST_MARKER \o <<10, 67>>
FailureReport == FAILURE_MARKER \o <<10, 70>>
NewContents == { [text |-> ChecklistComment, is_failure |-> FALSE],
                 [text |-> FailureReport, is_failure |-> TRUE] }

\* the pieces an issue body is made of: a space, a newline, a letter, the
\* start of an HTML comment, and the two markers
Pieces == { <<32>>, <<10>>, <<72>>, <<60, 33, 45, 45>>, CHECKLIST_MARKER, FAILURE_MARKER }
RECURSIVE Join(_)
Join(ps) == IF ps = <<>> THEN <<>> ELSE Head(ps) \o Join(Tail(ps))
\* a text as long as the payload limit
LongText == [i \in 1..PayloadLimit |-> 72]
IssueBodies ==
    { Join(ps) : ps \in BoundedSeq(Pieces, MaxPieces) }
      \cup { LongText \o Join(ps) : ps \in BoundedSeq(Pieces, MaxPieces - 1) }

NoPatch == [sent |-> FALSE, original_body |-> <<>>, new_content |-> <<>>, body |-> <<>>]

\* lines 28-85.  Without GITHUB_TOKEN get_github_headers ends the process
\* (line 20); a PATCH that fails raises RuntimeError (line 85).
UpdateIssueBody ==
    /\ updates < MaxUpdates
    /\ \E new \in NewContents, gh_token \in BOOLEAN, patch_ok \in BOOLEAN :
         LET original_body == issue_body
             body == payload(original_body, new.text)
         IN IF ~gh_token
            THEN /\ body_outcome' = "exit"
                 /\ UNCHANGED <<issue_body, patch, applied>>
            ELSE /\ patch' = [sent |-> TRUE, original_body |-> original_body,
                              new_content |-> new.text, body |-> body]
                 /\ issue_body' = IF patch_ok THEN body ELSE issue_body
                 /\ applied' = IF patch_ok THEN Append(applied, new.text) ELSE applied
                 /\ body_outcome' = IF patch_ok THEN "updated" ELSE "RuntimeError"
    /\ updates' = updates + 1
    /\ UNCHANGED body_at_start
    /\ UNCHANGED nonBodyVars

BodyInit ==
    /\ issue_body \in IssueBodies
    /\ patch = NoPatch
    /\ body_outcome = "none"
    /\ updates = 0
    /\ body_at_start = issue_body
    /\ applied = <<>>

BodyIdle ==
    /\ issue_body = <<>>
    /\ patch = NoPatch
    /\ body_outcome = "none"
    /\ updates = 0
    /\ body_at_start = <<>>
    /\ applied = <<>>

(***************************************************************************)
(* utils/rightbrain_api.py: get_rb_token                                   *)
(***************************************************************************)
\* line 81: the cache is left 60 seconds before the token expires
Margin == 60
\* line 152: response_data.get("expires_in", 3600)
DefaultExpiresIn == 3600

Tokens == { "t1", "t2" }
NoToken == "none"
\* line 70: _token_cache = None
EmptyCache == [set |-> FALSE, token |-> NoToken, expiry |-> 0]

\* rightbrain.config.json: missing, unreadable, a JSON object, or other JSON
ConfigFiles == { "absent", "corrupt", "object", "array" }
\* RB_CLIENT_ID and RB_CLIENT_SECRET both set; TOKEN_URI or RB_OAUTH2_URL set
TokenEnvs == [credentials : BOOLEAN, token_uri : BOOLEAN, config : ConfigFiles]

\* what the token endpoint can answer; expires_in 0 stands for an absent key
TokenResponses ==
    { [kind |-> k, token |-> NoToken, expires_in |-> 0] :
        k \in { "connection error", "not ok", "not json", "no access_token" } }
      \cup { [kind |-> "ok", token |-> t, expires_in |-> e] : t \in Tokens, e \in { 0, 30, 120 } }
\* the seconds a request takes, and the seconds that pass between two calls
RequestSeconds == { 0, 1 }
ClockSteps == { 1, 59, 60, 3480 }

\* line 79-81 with no margin
CacheHitUntilExpiry(cache, t) == cache.set /\ t < cache.expiry

\* lines 79-81
CacheHit(cache, t) == cache.set /\ t < (cache.expiry - Margin)

\* line 152
ExpiresIn(response) ==
    IF response.expires_in = 0 THEN DefaultExpiresIn ELSE response.expires_in

NoTokenCall ==
    [made |-> FALSE, at |-> 0, cache_before |-> EmptyCache, cache_after |-> EmptyCache,
     requests_before |-> 0, requests_after |-> 0, response |-> "none", issued |-> NoToken,
     responded_at |-> 0, lifetime |-> 0, returned |-> NoToken]

\* lines 72-160.  load_rb_config ends the process on an unreadable file (line
\* 66), missing credentials end it (line 94), config.get on JSON that is not an
\* object raises AttributeError (line 119), and every failed request ends it
\* (lines 142, 149, 160).
GetRbToken ==
    /\ token_state = "running"
    /\ token_steps.calls < MaxTokenCalls
    /\ token_steps' = [token_steps EXCEPT !.calls = @ + 1]
    /\ \E response \in TokenResponses, seconds \in RequestSeconds :
         LET record == [NoTokenCall EXCEPT !.made = TRUE, !.at = now,
                                          !.cache_before = token_cache,
                                          !.cache_after = token_cache,
                                          !.requests_before = token_requests,
                                          !.requests_after = token_requests]
         IN IF CacheHit(token_cache, now)
            THEN /\ token_call' = [record EXCEPT !.returned = token_cache.token]
                 /\ UNCHANGED <<now, token_cache, token_requests, token_state>>
            ELSE IF token_env.config = "corrupt" \/ ~token_env.credentials
            THEN /\ token_call' = record
                 /\ token_state' = "exit"
                 /\ UNCHANGED <<now, token_cache, token_requests>>
            ELSE IF ~token_env.token_uri /\ token_env.config = "array"
            THEN /\ token_call' = record
                 /\ token_state' = "AttributeError"
                 /\ UNCHANGED <<now, token_cache, token_requests>>
            ELSE /\ token_requests' = token_requests + 1
                 /\ now' = now + seconds
                 /\ IF response.kind = "ok"
                    THEN /\ token_cache' = [set |-> TRUE, token |-> response.token,
                                            expiry |-> now' + ExpiresIn(response)]
                         /\ token_call' = [record EXCEPT !.cache_after = token_cache',
                                             !.requests_after = token_requests',
                                             !.response = response.kind,
                                             !.issued = response.token,
                                             !.responded_at = now',
                                             !.lifetime = ExpiresIn(response),
                                             !.returned = response.token]
                         /\ UNCHANGED token_state
                    ELSE /\ token_call' = [record EXCEPT !.requests_after = token_requests',
                                             !.response = response.kind,
                                             !.responded_at = now']
                         /\ token_state' = "exit"
                         /\ UNCHANGED token_cache
    /\ UNCHANGED token_env
    /\ UNCHANGED nonTokenVars

\* time passes between two calls
ClockStep ==
    /\ token_state = "running"
    /\ token_steps.clock < MaxClockSteps
    /\ token_steps' = [token_steps EXCEPT !.clock = @ + 1]
    /\ \E seconds \in ClockSteps : now' = now + seconds
    /\ UNCHANGED <<token_cache, token_env, token_requests, token_call, token_state>>
    /\ UNCHANGED nonTokenVars

TokenInit ==
    /\ now = 0
    /\ token_cache = EmptyCache
    /\ token_env \in TokenEnvs
    /\ token_requests = 0
    /\ token_call = NoTokenCall
    /\ token_state = "running"
    /\ token_steps = [calls |-> 0, clock |-> 0]

TokenIdle ==
    /\ now = 0
    /\ token_cache = EmptyCache
    /\ token_env = [credentials |-> TRUE, token_uri |-> TRUE, config |-> "absent"]
    /\ token_requests = 0
    /\ token_call = NoTokenCall
    /\ token_state = "running"
    /\ token_steps = [calls |-> 0, clock |-> 0]

(***************************************************************************)
(* utils/rightbrain_api.py: run_rb_task                                    *)
(***************************************************************************)
\* "/api/v1"
ApiV1 == <<47, 97, 112, 105, 47, 118, 49>>
\* "https://app.rightbrain.ai"
DefaultApiUrl ==
    <<104, 116, 116, 112, 115, 58, 47, 47, 97, 112, 112, 46, 114, 105, 103, 104, 116, 98,
      114, 97, 105, 110, 46, 97, 105>>
\* "https://h"
OtherApiUrl == <<104, 116, 116, 112, 115, 58, 47, 47, 104>>
\* what API_ROOT or the api_url of the config file can hold; <<>>: not set
ApiUrls == { <<>>, OtherApiUrl, OtherApiUrl \o <<47>>, OtherApiUrl \o ApiV1 }

\* str.endswith
EndsWith(s, t) == Len(t) <= Len(s) /\ SubSeq(s, Len(s) - Len(t) + 1, Len(s)) = t
\* str.rstrip('/')
RECURSIVE RStripSlash(_)
RStripSlash(s) ==
    IF s # <<>> /\ s[Len(s)] = 47 THEN RStripSlash(SubSeq(s, 1, Len(s) - 1)) ELSE s
\* lines 168-172 and 181-185
WithApiV1(url) ==
    IF EndsWith(RStripSlash(url), ApiV1) THEN RStripSlash(url) ELSE RStripSlash(url) \o ApiV1

\* RB_ORG_ID, RB_PROJECT_ID, RB_CLIENT_ID, RB_CLIENT_SECRET set or not, API_ROOT,
\* and rightbrain.config.json with its api_url
TaskEnvs ==
    [org_id : BOOLEAN, project_id : BOOLEAN, client_id : BOOLEAN, client_secret : BOOLEAN,
     api_root : ApiUrls, config : ConfigFiles, api_url : { <<>>, OtherApiUrl \o <<47>> }]

\* lines 188-207: get_rb_config returns, or ends the process
ConfigPresent(env) == env.org_id /\ env.project_id /\ env.client_id /\ env.client_secret

\* lines 165-186: get_api_root; load_rb_config ends the process on an unreadable
\* file (line 66) and config.get raises on JSON that is not an object (line 180)
ApiRootOutcome(env) ==
    IF env.api_root # <<>> THEN "returned"
    ELSE IF env.config = "corrupt" THEN "exit"
    ELSE IF env.config = "array" THEN "AttributeError"
    ELSE "returned"

get_api_root(env) ==
    IF env.api_root # <<>> THEN WithApiV1(env.api_root)
    ELSE IF env.config = "object" /\ env.api_url # <<>> THEN WithApiV1(env.api_url)
    ELSE WithApiV1(DefaultApiUrl)

\* "/org/o/project/p", lines 209-211
get_project_path == <<47, 111, 114, 103, 47, 111, 47, 112, 114, 111, 106, 101, 99, 116, 47, 112>>
\* task_id: None or "", or "t"
TaskIds == { <<>>, <<116>> }
\* line 421
RunUrl(env, task_id) ==
    get_api_root(env) \o get_project_path \o <<47, 116, 97, 115, 107, 47>> \o task_id
        \o <<47, 114, 117, 110>>

\* what requests.post can do: fail before a response arrives, or give a
\* response with a status and a body that is JSON ("r1", "r2") or is not
TaskBodies == { "r1", "r2" }
NotJson == "not json"
NoBody == "none"
TaskResponses ==
    { [kind |-> k, status |-> 0, body |-> NoBody] : k \in { "ConnectionError", "Timeout" } }
      \cup { [kind |-> "response", status |-> st, body |-> b] :
               st \in { 200, 204, 304, 404, 500 }, b \in TaskBodies \cup { NotJson } }

\* a raise_for_status that lets every response through
raise_for_status_never(status) == FALSE

\* requests: Response.raise_for_status raises HTTPError for a 4xx or 5xx status
raise_for_status(status) == status >= 400 /\ status < 600

\* lines 429-442
TaskResult(response) ==
    IF response.kind # "response"
    THEN [kind |-> "returned", is_error |-> TRUE, error |-> response.kind, body |-> NoBody]
    ELSE IF raise_for_status(response.status)
    THEN [kind |-> "returned", is_error |-> TRUE, error |-> "HTTPError", body |-> NoBody]
    ELSE IF response.body = NotJson
    THEN [kind |-> "returned", is_error |-> TRUE, error |-> "JSONDecodeError", body |-> NoBody]
    ELSE [kind |-> "returned", is_error |-> FALSE, error |-> "", body |-> response.body]

NoTaskResult == [kind |-> "none", is_error |-> FALSE, error |-> "", body |-> NoBody]
NoTaskResponse == [kind |-> "none", status |-> 0, body |-> NoBody]
NoTaskCall ==
    [made |-> FALSE, task_id |-> <<>>, posted |-> FALSE, run_url |-> <<>>,
     response |-> NoTaskResponse, result |-> NoTaskResult]

\* lines 413-442
RunRbTask ==
    /\ task_state = "running"
    /\ task_calls < MaxTaskCalls
    /\ task_calls' = task_calls + 1
    /\ \E task_id \in TaskIds, response \in TaskResponses :
         LET record == [NoTaskCall EXCEPT !.made = TRUE, !.task_id = task_id]
         IN IF ~ConfigPresent(task_env)
            THEN /\ task_call' = [record EXCEPT !.result.kind = "exit"]
                 /\ task_state' = "exit"
            ELSE IF task_id = <<>>
            THEN /\ task_call' = [record EXCEPT !.result =
                                    [kind |-> "returned", is_error |-> TRUE,
                                     error |-> "Missing configuration", body |-> NoBody]]
                 /\ UNCHANGED task_state
            ELSE IF ApiRootOutcome(task_env) # "returned"
            THEN /\ task_call' = [record EXCEPT !.result.kind = ApiRootOutcome(task_env)]
                 /\ task_state' = ApiRootOutcome(task_env)
            ELSE /\ task_call' = [record EXCEPT !.posted = TRUE,
                                                !.run_url = RunUrl(task_env, task_id),
                                                !.response = response,
                                                !.result = TaskResult(response)]
                 /\ UNCHANGED task_state
    /\ UNCHANGED task_env
    /\ UNCHANGED nonTaskVars

TaskInit ==
    /\ task_env \in TaskEnvs
    /\ task_call = NoTaskCall
    /\ task_state = "running"
    /\ task_calls = 0

TaskIdle ==
    /\ task_env = [org_id |-> TRUE, project_id |-> TRUE, client_id |-> TRUE,
                   client_secret |-> TRUE, api_root |-> <<>>, config |-> "absent",
                   api_url |-> <<>>]
    /\ task_call = NoTaskCall
    /\ task_state = "running"
    /\ task_calls = 0

(***************************************************************************)
(* scripts/discover_documents.py: the form parser                          *)
(***************************************************************************)
\* "### "
HeadingMark == <<35, 35, 35, 32>>
\* "T&Cs"
LabelTCs == <<84, 38, 67, 115>>
\* "Security Documents URL"
LabelSecurity ==
    <<83, 101, 99, 117, 114, 105, 116, 121, 32, 68, 111, 99, 117, 109, 101, 110, 116, 115,
      32, 85, 82, 76>>
\* "http", "s", "://"
Http == <<104, 116, 116, 112>>
ColonSlashes == <<58, 47, 47>>
\* line 35: [^\s`<>"'] excludes white space and ` < > " '
UrlStoppers == Whitespace \cup { 96, 60, 62, 34, 39 }

\* the text t stands at position p of the text, letter case ignored
MatchesAt(text, p, t) ==
    /\ p + Len(t) - 1 <= Len(text)
    /\ Lower(SubSeq(text, p, p + Len(t) - 1)) = Lower(t)

\* the first position from i on that holds no character of the set
SkipChars(text, i, chars) ==
    CHOOSE j \in i..(Len(text) + 1) :
        /\ j = Len(text) + 1 \/ text[j] \notin chars
        /\ \A k \in i..(j - 1) : text[k] \in chars

\* the first position from i on that holds a character of the set, or the
\* position after the text
FirstOf(text, i, chars) ==
    CHOOSE j \in i..(Len(text) + 1) :
        /\ j = Len(text) + 1 \/ text[j] \in chars
        /\ \A k \in i..(j - 1) : text[k] \notin chars

\* the length of "http://" or "https://" at position q, or 0
SchemeLength(text, q) ==
    IF MatchesAt(text, q, Http \o <<115>> \o ColonSlashes) THEN 8
    ELSE IF MatchesAt(text, q, Http \o ColonSlashes) THEN 7
    ELSE 0

\* line 35: the group of the pattern matched at position p, or <<>>
UrlGroupAt(text, p, label) ==
    LET heading == HeadingMark \o label
        q == SkipChars(text, p + Len(heading), Whitespace)
        r == q + SchemeLength(text, q)
    IN  IF /\ text[p] = 35
           /\ MatchesAt(text, p, heading)
           /\ q > p + Len(heading)
           /\ SchemeLength(text, q) > 0
           /\ FirstOf(text, r, UrlStoppers) > r
        THEN SubSeq(text, q, FirstOf(text, r, UrlStoppers) - 1)
        ELSE <<>>

\* lines 31-39
parse_urls_from_issue_form(body, label) ==
    LET matches == { p \in 1..Len(body) : UrlGroupAt(body, p, label) # <<>> }
    IN  IF matches = {} THEN <<>>
        ELSE << Strip(UrlGroupAt(body,
                                 CHOOSE p \in matches : \A o \in matches : p <= o, label)) >>

(***************************************************************************)
(* scripts/discover_documents.py: main as a whole process                  *)
(***************************************************************************)
\* "https://u", "https://v"
SeedU == Http \o <<115>> \o ColonSlashes \o <<117>>
SeedV == Http \o <<115>> \o ColonSlashes \o <<118>>
\* the sections of the issue form: "### <label>\n\n<url>\n\n"
FormField(label, url) == HeadingMark \o label \o <<10, 10>> \o url \o <<10, 10>>
\* ISSUE_BODY: a text, short or at the payload limit, and the two URL fields
MainIssueBodies ==
    { text \o legal \o security :
        text \in { <<72, 10>>, LongText \o <<10>> },
        legal \in { <<>>, FormField(LabelTCs, SeedU) },
        security \in { <<>>, FormField(LabelSecurity, SeedV) } }

\* the variables of lines 268-277 all set or not, GITHUB_TOKEN empty or not,
\* tasks/task_manifest.json, and ISSUE_BODY
MainEnvs ==
    [variables : { "set", "missing" }, gh_token : { "set", "empty" },
     manifest : { "absent", "corrupt", "no ids", "ids" }, issue_body : MainIssueBodies]

\* what the discovery task reports
MainDiscoveries ==
    { <<>>, << LinkedItem(UrlV, <<68>>, "relevant") >>, << UnlinkedItem(<<82>>, "relevant") >> }

\* lines 458-485 as a function of the list and of what was seen
RECURSIVE Deduplicate(_, _, _, _)
Deduplicate(items, seen_urls, seen_names, unique) ==
    IF items = <<>> THEN unique
    ELSE LET item == Head(items)
         IN  IF /\ item.kind = "dict" /\ item.link_type = "linked"
                /\ item.absolute_url # <<>> /\ item.absolute_url \notin seen_urls
             THEN Deduplicate(Tail(items), seen_urls \cup {item.absolute_url}, seen_names,
                              [unique EXCEPT !.linked = Append(@, item)])
             ELSE IF /\ item.kind = "dict" /\ item.link_type = "unlinked"
                     /\ item.document_name # <<>>
                     /\ Lower(item.document_name) \notin seen_names
             THEN Deduplicate(Tail(items), seen_urls,
                              seen_names \cup {Lower(item.document_name)},
                              [unique EXCEPT !.unlinked = Append(@, item)])
             ELSE Deduplicate(Tail(items), seen_urls, seen_names, unique)

MainCall(task, url, sent, is_error) ==
    [task |-> task, url |-> url, sent |-> sent, is_error |-> is_error]
MainPatch(new_content, ok) ==
    [new_content |-> new_content, body |-> payload(main_env.issue_body, new_content), ok |-> ok]

MainEnds(end) == main_pc' = "ended" /\ main_end' = end

\* a post_failure_and_exit that writes nothing
NoFailureWrite(ok) == <<>>

\* github_api.py lines 136-141: the write of the failure report
FailureWrite(ok) == << MainPatch(FailureReport, ok) >>

\* github_api.py lines 120-143: post_failure_and_exit writes the failure
\* report with update_issue_body, whatever comes of it, and ends the process
PostFailureAndExit ==
    /\ IF main_env.gh_token = "empty"
       THEN UNCHANGED main_patches
       ELSE \E ok \in BOOLEAN : main_patches' = main_patches \o FailureWrite(ok)
    /\ MainEnds("exit 1")

\* lines 265-288: the environment, the manifest and the token
MainStart ==
    /\ main_pc = "start"
    /\ IF main_env.variables = "missing" THEN MainEnds("KeyError")
       ELSE IF main_env.manifest \in { "absent", "no ids" } THEN MainEnds("exit 1")
       ELSE IF main_env.manifest = "corrupt" THEN MainEnds("JSONDecodeError")
       ELSE \E token \in BOOLEAN :
              IF token THEN main_pc' = "legal" /\ UNCHANGED main_end
              ELSE MainEnds("exit 1")
    /\ UNCHANGED <<main_env, main_docs, main_calls, main_patches, main_writes, main_checklist>>
    /\ UNCHANGED nonMainVars

\* lines 316-350 and 380-415: the discovery task on a seed
MainDiscovery(at, label, next, skip) ==
    /\ main_pc = at
    /\ LET urls == parse_urls_from_issue_form(main_env.issue_body, label)
       IN  IF urls = <<>>
           THEN /\ main_pc' = skip
                /\ UNCHANGED <<main_end, main_docs, main_calls, main_patches>>
           ELSE \E is_error \in BOOLEAN, discovered \in MainDiscoveries :
                  /\ main_calls' = Append(main_calls,
                                          MainCall("discovery", urls[1], TRUE, is_error))
                  /\ IF is_error
                     THEN PostFailureAndExit /\ UNCHANGED main_docs
                     ELSE /\ main_docs' = main_docs \o discovered
                          /\ main_pc' = next
                          /\ UNCHANGED <<main_end, main_patches>>
    /\ UNCHANGED <<main_env, main_writes, main_checklist>>
    /\ UNCHANGED nonMainVars

MainLegalDiscovery == MainDiscovery("legal", LabelTCs, "legal classifier", "security")

MainSecurityDiscovery ==
    MainDiscovery("security", LabelSecurity, "security classifier", "stage 2")

\* lines 358 and 423: run_rb_task takes four parameters and is given seven
\* arguments; the call raises TypeError before the function runs
MainSeedClassifier(at, label) ==
    /\ main_pc = at
    /\ main_calls' = Append(main_calls,
                            MainCall("classifier",
                                     parse_urls_from_issue_form(main_env.issue_body, label)[1],
                                     FALSE, FALSE))
    /\ MainEnds("TypeError")
    /\ UNCHANGED <<main_env, main_docs, main_patches, main_writes, main_checklist>>
    /\ UNCHANGED nonMainVars

MainLegalClassifier == MainSeedClassifier("legal classifier", LabelTCs)

MainSecurityClassifier == MainSeedClassifier("security classifier", LabelSecurity)

\* lines 445-572: de-duplicate, fetch every unique linked document, render the
\* checklist and update the issue; a failed update goes to post_failure_and_exit
MainStageTwo ==
    /\ main_pc = "stage 2"
    /\ LET legal_seeds == parse_urls_from_issue_form(main_env.issue_body, LabelTCs)
           security_seeds == parse_urls_from_issue_form(main_env.issue_body, LabelSecurity)
           seeds == { legal_seeds[i] : i \in 1..Len(legal_seeds) }
                      \cup { security_seeds[i] : i \in 1..Len(security_seeds) }
           unique == Deduplicate(main_docs, seeds, {}, [linked |-> <<>>, unlinked |-> <<>>])
           fetched == 1..Len(unique.linked)
       IN  \E runs \in [fetched -> ClassifierResults] :
             LET Saved(i) == ~runs[i].is_error /\ SavesText(runs[i].text)
                 classified ==
                     [i \in fetched |->
                         [document_name |-> unique.linked[i].document_name,
                          document_url |-> unique.linked[i].absolute_url,
                          relevance_status |->
                              IF unique.linked[i].relevance_status = None
                              THEN "irrelevant" ELSE unique.linked[i].relevance_status,
                          has_categories |-> TRUE,
                          relevance_categories |->
                              IF runs[i].is_error \/ ~runs[i].has_categories
                              THEN <<"none">> ELSE runs[i].categories]]
                 saved == SelectSeq([i \in fetched |->
                                        [file |-> create_safe_filename(
                                                      unique.linked[i].document_name,
                                                      issue_number),
                                         url |-> unique.linked[i].absolute_url,
                                         saved |-> Saved(i)]],
                                    LAMBDA w : w.saved)
             IN  /\ main_calls' = main_calls \o
                        [i \in fetched |->
                            MainCall("classifier", unique.linked[i].absolute_url, TRUE,
                                     runs[i].is_error)]
                 /\ main_writes' = main_writes \o saved
                 /\ main_checklist' =
                        format_documents_as_checklist(legal_seeds, classified, unique.unlinked,
                                                      security_seeds, issue_number)
    /\ IF main_env.gh_token = "empty"
       THEN MainEnds("exit 1") /\ UNCHANGED main_patches
       ELSE \E ok \in BOOLEAN :
              IF ok
              THEN /\ main_patches' = Append(main_patches, MainPatch(ChecklistComment, TRUE))
                   /\ MainEnds("exit 0")
              ELSE \E again \in BOOLEAN :
                     /\ main_patches' = main_patches \o
                            << MainPatch(ChecklistComment, FALSE) >> \o FailureWrite(again)
                     /\ MainEnds("exit 1")
    /\ UNCHANGED <<main_env, main_docs>>
    /\ UNCHANGED nonMainVars

MainInit ==
    /\ main_env \in MainEnvs
    /\ main_pc = "start"
    /\ main_end = "none"
    /\ main_docs = <<>>
    /\ main_calls = <<>>
    /\ main_patches = <<>>
    /\ main_writes = <<>>
    /\ main_checklist = NothingPosted

MainIdle ==
    /\ main_env = [variables |-> "set", gh_token |-> "set", manifest |-> "ids",
                   issue_body |-> <<>>]
    /\ main_pc = "start"
    /\ main_end = "none"
    /\ main_docs = <<>>
    /\ main_calls = <<>>
    /\ main_patches = <<>>
    /\ main_writes = <<>>
    /\ main_checklist = NothingPosted

(***************************************************************************)
(* scripts/consolidate_and_analyze.py: main as a whole process             *)
(***************************************************************************)
\* lines 286-294: the variables that are checked one by one
AnalysisPlainVars ==
    { "GITHUB_TOKEN", "ISSUE_BODY", "ISSUE_NUMBER", "REPO_NAME", "RB_ORG_ID",
      "RB_PROJECT_ID", "RB_CLIENT_ID", "RB_CLIENT_SECRET", "RB_API_URL" }
\* line 295: the two variables that are joined into rb_token_url
AnalysisUrlVars == { "RB_OAUTH2_URL", "RB_OAUTH2_TOKEN_PATH" }
AnalysisVariables == AnalysisPlainVars \cup AnalysisUrlVars

\* lines 297-299: all([...]) over the nine values and the joined rb_token_url;
\* missing: the variables that are unset or empty
EnvironmentAccepted(missing) ==
    /\ AnalysisPlainVars \cap missing = {}
    /\ ~(AnalysisUrlVars \subseteq missing)

\* the variables that are unset or empty, tasks/task_manifest.json,
\* config/company_profile.json, and whether compile_text_from_files gives text
\* for the approved legal and security documents
AnalysisEnvs ==
    [missing : { m \in SUBSET AnalysisVariables : Cardinality(m) <= MaxMissing },
     manifest : { "absent", "corrupt", "no ids", "ids" },
     profile : { "absent", "read" },
     legal_docs_text : BOOLEAN,
     security_docs_text : BOOLEAN]

\* the values a task leaves in legal_analysis_json, security_analysis_json or
\* report_json
Skipped(task) == [kind |-> "skipped", task |-> task]
TaskError(task) == [kind |-> "error", task |-> task]
TaskValue(task) == [kind |-> "response", task |-> task]
TaskEmpty(task) == [kind |-> "empty", task |-> task]
NotRun == [kind |-> "none", task |-> "none"]

\* lines 60-87: what the request of run_rb_task can come to: an exception of
\* requests (RequestException), a JSON object with or without "response",
\* or JSON that is no object, on which .get raises AttributeError
AnalysisResponses ==
    { "ConnectionError", "HTTPError", "JSONDecodeError", "response", "no response",
      "not an object" }

AnalysisTaskResult(task, response) ==
    IF response \in { "ConnectionError", "HTTPError", "JSONDecodeError" } THEN TaskError(task)
    ELSE IF response = "response" THEN TaskValue(task)
    ELSE TaskEmpty(task)

\* line 387: not report_json or "error" in report_json
SynthesisFailed(report_json) == report_json.kind \in { "empty", "error" }

\* a fallback comment that leaves out the raw legal analysis
CommentWithoutLegal(report_json, security_json, legal_json) ==
    IF SynthesisFailed(report_json)
    THEN [kind |-> "synthesis failed", shows |-> { security_json }]
    ELSE [kind |-> "report", shows |-> { report_json, security_json, legal_json }]

\* lines 387-402 and format_report_as_markdown (211-278): the values the
\* comment prints
FinalComment(report_json, security_json, legal_json) ==
    IF SynthesisFailed(report_json)
    THEN [kind |-> "synthesis failed", shows |-> { security_json, legal_json }]
    ELSE [kind |-> "report", shows |-> { report_json, security_json, legal_json }]

AnalysisEnds(end) == analysis_pc' = "ended" /\ analysis_end' = end

\* lines 283-338
AnalysisStart ==
    /\ analysis_pc = "start"
    /\ IF \/ ~EnvironmentAccepted(analysis_env.missing)
          \/ analysis_env.manifest # "ids"
          \/ analysis_env.profile # "read"
       THEN /\ AnalysisEnds("exit 1")
            /\ UNCHANGED <<analysis_json, analysis_requests, analysis_comments>>
       ELSE IF ~analysis_env.legal_docs_text /\ ~analysis_env.security_docs_text
       THEN /\ analysis_requests' = Append(analysis_requests, "comment")
            /\ analysis_comments' = Append(analysis_comments,
                                           [kind |-> "analysis failed", shows |-> {}])
            /\ AnalysisEnds("exit 0")
            /\ UNCHANGED analysis_json
       ELSE /\ analysis_requests' = Append(analysis_requests, "token")
            /\ \E token \in BOOLEAN :
                 IF token
                 THEN /\ analysis_pc' = "legal"
                      /\ analysis_json' = [legal |-> Skipped("legal"),
                                           security |-> Skipped("security"),
                                           report |-> NotRun]
                      /\ UNCHANGED analysis_end
                 ELSE AnalysisEnds("exit 1") /\ UNCHANGED analysis_json
            /\ UNCHANGED analysis_comments
    /\ UNCHANGED analysis_env
    /\ UNCHANGED nonAnalysisVars

\* lines 340-364 and 380-383: one of the three tasks
AnalysisTask(at, task, has_input, next) ==
    /\ analysis_pc = at
    /\ IF ~has_input
       THEN /\ analysis_pc' = next
            /\ UNCHANGED <<analysis_end, analysis_json, analysis_requests>>
       ELSE /\ analysis_requests' = Append(analysis_requests, task)
            /\ \E response \in AnalysisResponses :
                 IF response = "not an object"
                 THEN AnalysisEnds("AttributeError") /\ UNCHANGED analysis_json
                 ELSE /\ analysis_json' =
                            [analysis_json EXCEPT ![task] = AnalysisTaskResult(task, response)]
                      /\ analysis_pc' = next
                      /\ UNCHANGED analysis_end
    /\ UNCHANGED <<analysis_env, analysis_comments>>
    /\ UNCHANGED nonAnalysisVars

AnalysisLegal == AnalysisTask("legal", "legal", analysis_env.legal_docs_text, "security")

AnalysisSecurity ==
    AnalysisTask("security", "security", analysis_env.security_docs_text, "synthesis")

AnalysisSynthesis == AnalysisTask("synthesis", "report", TRUE, "post")

\* lines 385-405: the comment is sent once; a failed POST is printed, not raised
AnalysisPost ==
    /\ analysis_pc = "post"
    /\ analysis_requests' = Append(analysis_requests, "comment")
    /\ analysis_comments' =
          Append(analysis_comments,
                 FinalComment(analysis_json.report, analysis_json.security, analysis_json.legal))
    /\ AnalysisEnds("exit 0")
    /\ UNCHANGED <<analysis_env, analysis_json>>
    /\ UNCHANGED nonAnalysisVars

NoAnalysis == [legal |-> NotRun, security |-> NotRun, report |-> NotRun]

AnalysisInit ==
    /\ analysis_env \in AnalysisEnvs
    /\ analysis_pc = "start"
    /\ analysis_end = "none"
    /\ analysis_json = NoAnalysis
    /\ analysis_requests = <<>>
    /\ analysis_comments = <<>>

AnalysisIdle ==
    /\ analysis_env = [missing |-> {}, manifest |-> "ids", profile |-> "read",
                       legal_docs_text |-> FALSE, security_docs_text |-> FALSE]
    /\ analysis_pc = "start"
    /\ analysis_end = "none"
    /\ analysis_json = NoAnalysis
    /\ analysis_requests = <<>>
    /\ analysis_comments = <<>>

(***************************************************************************)
(* scripts/commit_approved_vendor.py: two workflow runs in update_central_json *)
(* on the same registry file.  Each run opens the file for reading (lines  *)
(* 131-135), changes its own list (137-150) and opens the file for writing *)
(* (152-153); nothing in the function locks the file.                      *)
(***************************************************************************)
Runs == { 1, 2 }

SummaryData(name, risk, closed_at) ==
    LET dates == ReviewDates(closed_at, risk)
    IN  [processor_name |-> name, risk_rating |-> risk,
         last_review_date |-> dates.last, next_review_date |-> dates.next]

\* records an earlier update_central_json call has stored
StoredRecords == { SummaryData(name, risk, 0) : name \in ProcessorNames, risk \in { "High", "Low" } }

StoredLists ==
    UNION { { SortRecords(l) : l \in { m \in [1..k -> StoredRecords] :
                                        \A i, j \in 1..k :
                                            i # j => m[i].processor_name # m[j].processor_name } }
            : k \in 0..MaxStored }

RegistryContents ==
    { [state |-> "absent", records |-> <<>>], [state |-> "corrupt", records |-> <<>>] }
        \cup { DumpRecords(l) : l \in StoredLists }

\* summary_data of the two runs: two different vendor names
RunInputs ==
    { d \in [Runs -> { SummaryData(name, risk, 0) : name \in ProcessorNames,
                                                  risk \in { "High", None } }] :
        d[1].processor_name # d[2].processor_name }

\* a run that reads the file again when it writes
RecordsReadAgain(job) == LoadRecords(shared_file)

\* lines 137-150 work on all_records, the list the run read at lines 131-135
RecordsToUpdate(job) == run_records[job]

\* lines 131-135
RunRead(job) ==
    /\ run_pc[job] = "start"
    /\ run_records' = [run_records EXCEPT ![job] = LoadRecords(shared_file)]
    /\ run_pc' = [run_pc EXCEPT ![job] = "read"]
    /\ run_events' = Append(run_events, [by |-> job, op |-> "read"])
    /\ UNCHANGED <<shared_file, file_at_start, run_data>>
    /\ UNCHANGED nonRaceVars

\* lines 137-154
RunWrite(job) ==
    /\ run_pc[job] = "read"
    /\ LET all_records == SortRecords(Upsert(RecordsToUpdate(job), run_data[job]))
       IN  /\ shared_file' = DumpRecords(all_records)
           /\ run_records' = [run_records EXCEPT ![job] = all_records]
    /\ run_pc' = [run_pc EXCEPT ![job] = "done"]
    /\ run_events' = Append(run_events, [by |-> job, op |-> "write"])
    /\ UNCHANGED <<file_at_start, run_data>>
    /\ UNCHANGED nonRaceVars

Read == \E job \in Runs : RunRead(job)

Write == \E job \in Runs : RunWrite(job)

RaceInit ==
    /\ shared_file \in RegistryContents
    /\ file_at_start = shared_file
    /\ run_data \in RunInputs
    /\ run_pc = [job \in Runs |-> "start"]
    /\ run_records = [job \in Runs |-> <<>>]
    /\ run_events = <<>>

RaceIdle ==
    /\ shared_file = [state |-> "absent", records |-> <<>>]
    /\ file_at_start = shared_file
    /\ run_data = [job \in Runs |-> SummaryData(<<97>>, None, 0)]
    /\ run_pc = [job \in Runs |-> "start"]
    /\ run_records = [job \in Runs |-> <<>>]
    /\ run_events = <<>>

(***************************************************************************)
(* parse_form_field of scripts/consolidate_and_analyze.py (lines 91-98) and *)
(* of utils/github_api.py (lines 147-156).  Both search the pattern         *)
(*   ### <label>\s*\n\s*(.*?)(?=\n### |\Z)                                 *)
(* with IGNORECASE and "." matching every character.                       *)
(***************************************************************************)
\* "\n### "
NextHeading == <<10>> \o HeadingMark

\* the match of the pattern at position p: after the label, \s*\n\s* takes the
\* whole run of white space, which must hold a line feed; the lazy group
\* starts after the run and ends before the first "\n### " or at the end
FieldMatchAt(body, p, label) ==
    LET heading == HeadingMark \o label
        i == p + Len(heading)
        j == SkipChars(body, i, Whitespace)
        ends == { e \in j..(Len(body) + 1) : e = Len(body) + 1 \/ MatchesAt(body, e, NextHeading) }
        e == CHOOSE x \in ends : \A y \in ends : x <= y
    IN  IF /\ MatchesAt(body, p, heading)
           /\ \E k \in i..(j - 1) : body[k] = 10
        THEN [matched |-> TRUE, group |-> SubSeq(body, j, e - 1)]
        ELSE [matched |-> FALSE, group |-> <<>>]

\* pattern.search: the leftmost match
FieldSearch(body, label) ==
    LET matches == { p \in 1..Len(body) : FieldMatchAt(body, p, label).matched }
    IN  IF matches = {} THEN [matched |-> FALSE, group |-> <<>>]
        ELSE FieldMatchAt(body, CHOOSE p \in matches : \A o \in matches : p <= o, label)

\* consolidate_and_analyze.py lines 91-98
parse_form_field(body, label) ==
    LET match == FieldSearch(body, label)
    IN  IF match.matched THEN Strip(match.group) ELSE NA

\* re.sub(r'<[^>]+>', '', value): "<", one or more characters other than ">", ">"
RECURSIVE RemoveTags(_)
RemoveTags(value) ==
    LET tags == { k \in 1..Len(value) :
                    /\ value[k] = 60
                    /\ k + 1 <= Len(value) /\ value[k + 1] # 62
                    /\ \E m \in (k + 2)..Len(value) : value[m] = 62 }
    IN  IF tags = {} THEN value
        ELSE LET k == CHOOSE x \in tags : \A y \in tags : x <= y
                 m == FirstOf(value, k + 2, { 62 })
             IN  SubSeq(value, 1, k - 1) \o RemoveTags(SubSeq(value, m + 1, Len(value)))

\* utils/github_api.py lines 147-156
github_api_parse_form_field(body, field_name) ==
    LET match == FieldSearch(body, field_name)
    IN  IF match.matched THEN RemoveTags(Strip(match.group)) ELSE NA

\* labels of the form: "A", "B"
FormLabels == { <<65>>, <<66>> }
\* the pieces issue bodies are made of: the headings, a line feed, a blank,
\* "x", "<b>"
FormPieces ==
    { HeadingMark \o l : l \in FormLabels } \cup { <<10>>, <<32>>, <<120>>, <<60, 98, 62>> }
FormBodies == { Join(ps) : ps \in BoundedSeq(FormPieces, MaxFormPieces) }

NotParsed == [field |-> <<>>, api_field |-> <<>>, urls |-> <<>>]

ParseFormField ==
    /\ form_parsed = "no"
    /\ form_parsed' = "parse_form_field"
    /\ form_value' = [NotParsed EXCEPT
                         !.field = parse_form_field(form_body, form_label),
                         !.api_field = github_api_parse_form_field(form_body, form_label)]
    /\ UNCHANGED <<form_body, form_label>>
    /\ UNCHANGED nonFormVars

FieldInit ==
    /\ form_body \in FormBodies
    /\ form_label \in FormLabels
    /\ form_parsed = "no"
    /\ form_value = NotParsed

\* "https://github.com/user-attachments/f", a URL of GitHub's attachment storage
AttachmentPrefix ==
    Http \o <<115>> \o ColonSlashes
         \o <<103, 105, 116, 104, 117, 98, 46, 99, 111, 109, 47>>
         \o <<117, 115, 101, 114, 45, 97, 116, 116, 97, 99, 104, 109, 101, 110, 116, 115, 47>>
AttachmentUrl == AttachmentPrefix \o <<102>>

UrlLabels == { LabelTCs, LabelSecurity }
\* the pieces the bodies of URL fields are made of: the two headings, a line
\* feed, two URLs, an attachment URL, a full stop
UrlPieces ==
    { HeadingMark \o l : l \in UrlLabels }
        \cup { <<10>>, SeedU, SeedV, AttachmentUrl, <<46>> }
UrlBodies == { Join(ps) : ps \in BoundedSeq(UrlPieces, MaxUrlPieces) }

ParseUrls ==
    /\ form_parsed = "no"
    /\ form_parsed' = "parse_urls_from_issue_form"
    /\ form_value' = [NotParsed EXCEPT !.urls = parse_urls_from_issue_form(form_body, form_label)]
    /\ UNCHANGED <<form_body, form_label>>
    /\ UNCHANGED nonFormVars

UrlsInit ==
    /\ form_body \in UrlBodies
    /\ form_label \in UrlLabels
    /\ form_parsed = "no"
    /\ form_value = NotParsed

FormIdle ==
    /\ form_body = <<>>
    /\ form_label = <<65>>
    /\ form_parsed = "no"
    /\ form_value = NotParsed

(***************************************************************************)
(* The two look-ups of a task id by name: get_task_id_by_name of           *)
(* utils/rightbrain_api.py (lines 244-310) and get_or_create_task_id of    *)
(* scripts/update_existing_vendor.py (lines 27-53).                        *)
(***************************************************************************)
\* the name asked for, and another task's name
TaskNames == { "asked", "other" }
\* "f.json" and "g.txt"
Filenames == { <<102, 46, 106, 115, 111, 110>>, <<103, 46, 116, 120, 116>> }
DotJson == <<46, 106, 115, 111, 110>>
\* a task id; "" is an id that is not truthy
ManifestIds == { "", "id" }

\* the values of a manifest section: {name, id}, or the id alone
ManifestValues ==
    [kind : { "dict" }, name : TaskNames, id : ManifestIds]
        \cup [kind : { "str" }, name : { "none" }, id : { "id" }]
ManifestItems == [filename : Filenames, data : ManifestValues]
\* the items of a section in their order; a filename is a key, so it occurs once
Sections ==
    { items \in BoundedSeq(ManifestItems, MaxEntries) :
        \A i, j \in 1..Len(items) : i # j => items[i].filename # items[j].filename }

\* tasks/task_manifest.json: absent, not JSON, a list, a flat dict, or a dict
\* with environment keys of which the run's environment is one or not
Manifests ==
    [kind : { "absent", "corrupt", "list" }, items : { <<>> }]
        \cup [kind : { "flat", "environment" }, items : Sections]
        \cup [kind : { "other environment" }, items : { <<>> }]

\* tasks/<filename>: absent, unreadable, or a definition with a name
TaskFiles == [Filenames -> { "absent", "corrupt" } \cup TaskNames]

\* the answer to the listing request and to the create request
Listings == { "ConnectionError", "HTTPError", "found", "empty" }
Creations == { "no definition file", "HTTPError", "created" }

LookupEnvs == [manifest : Manifests, files : TaskFiles, listing : Listings, creation : Creations]

Found(id) == [kind |-> "id", id |-> id]
Outcome(kind) == [kind |-> kind, id |-> ""]

\* lines 275-285 and 292-301: the value of a task file's name, read as one item
NamedInFile(item, files, task_name) ==
    /\ item.data.kind = "str"
    /\ EndsWith(item.filename, DotJson)
    /\ files[item.filename] = task_name

\* lines 270-274: a {name, id} value with the name and a truthy id
NamedInManifest(item, task_name) ==
    /\ item.data.kind = "dict"
    /\ item.data.name = task_name
    /\ item.data.id # ""

ItemHit(manifest, item, files, task_name) ==
    IF manifest.kind = "flat" THEN NamedInFile(item, files, task_name)
    ELSE NamedInManifest(item, task_name) \/ NamedInFile(item, files, task_name)

\* lines 244-310: the id of the first item that names the task, or None
get_task_id_by_name(manifest, files, task_name) ==
    IF manifest.kind \in { "absent", "corrupt", "list", "other environment" } THEN Outcome("None")
    ELSE LET hits == { i \in 1..Len(manifest.items) :
                         ItemHit(manifest, manifest.items[i], files, task_name) }
         IN  IF hits = {} THEN Outcome("None")
             ELSE Found(manifest.items[CHOOSE i \in hits : \A j \in hits : i <= j].data.id)

\* the task files the loop opens: those of the "str" items with a .json name
\* up to the first hit
FilesOpened(manifest, files, task_name) ==
    IF manifest.kind \in { "absent", "corrupt", "list", "other environment" } THEN <<>>
    ELSE LET hits == { i \in 1..Len(manifest.items) :
                         ItemHit(manifest, manifest.items[i], files, task_name) }
             last == IF hits = {} THEN Len(manifest.items)
                     ELSE CHOOSE i \in hits : \A j \in hits : i <= j
         IN  SelectSeq([i \in 1..last |-> IF /\ manifest.items[i].data.kind = "str"
                                             /\ EndsWith(manifest.items[i].filename, DotJson)
                                             /\ files[manifest.items[i].filename] # "absent"
                                          THEN "task file" ELSE "skip"],
                       LAMBDA x : x = "task file")

GetTaskIdByName ==
    /\ lookup_call = "none"
    /\ lookup_call' = "get_task_id_by_name"
    /\ lookup_result' = get_task_id_by_name(lookup_env.manifest, lookup_env.files, "asked")
    /\ lookup_trace' =
          IF lookup_env.manifest.kind = "absent" THEN <<>>
          ELSE <<"manifest">> \o FilesOpened(lookup_env.manifest, lookup_env.files, "asked")
    /\ UNCHANGED lookup_env
    /\ UNCHANGED nonLookupVars

\* update_existing_vendor.py lines 27-53: the listing request, and the create
\* request when the listing is empty.  A ConnectionError has no response, so
\* e.response.text in the handler raises AttributeError.
get_or_create_task_id(listing, creation) ==
    IF listing = "ConnectionError" THEN Outcome("AttributeError")
    ELSE IF listing = "HTTPError" THEN Outcome("exit 1")
    ELSE IF listing = "found" THEN Found("id")
    ELSE IF creation = "no definition file" THEN Outcome("FileNotFoundError")
    ELSE IF creation = "HTTPError" THEN Outcome("exit 1")
    ELSE Found("new id")

GetOrCreateTaskId ==
    /\ lookup_call = "none"
    /\ lookup_call' = "get_or_create_task_id"
    /\ lookup_result' = get_or_create_task_id(lookup_env.listing, lookup_env.creation)
    /\ lookup_trace' =
          IF lookup_env.listing # "empty" THEN <<"list">>
          ELSE IF lookup_env.creation = "no definition file" THEN <<"list", "definition file">>
          ELSE <<"list", "definition file", "create">>
    /\ UNCHANGED lookup_env
    /\ UNCHANGED nonLookupVars

LookupInit ==
    /\ lookup_env \in LookupEnvs
    /\ lookup_call = "none"
    /\ lookup_result = Outcome("none")
    /\ lookup_trace = <<>>

LookupIdle ==
    /\ lookup_env = [manifest |-> [kind |-> "absent", items |-> <<>>],
                     files |-> [f \in Filenames |-> "absent"],
                     listing |-> "empty", creation |-> "created"]
    /\ lookup_call = "none"
    /\ lookup_result = Outcome("none")
    /\ lookup_trace = <<>>

(***************************************************************************)
(* scripts/commit_approved_vendor.py: main as a whole process              *)
(***************************************************************************)
\* a comment of the issue: without a "Reviewer-Approved Data" JSON block, or
\* with one that holds an object with a processor_name ("A", "B"), an object
\* without that key, an object with a null processor_name, the object {},
\* or text json.loads rejects
CommentKinds == { "plain", "A", "B", "nameless", "null name", "empty", "unparsable" }
\* the source files the checklist of the issue can name
SourceFiles == { "f1", "f2" }

\* the six variables all set or not, the comments oldest first, the answer to
\* the comments request, ISSUE_CLOSED_AT, the checklist entries of ISSUE_BODY
\* and the files in _vendor_analysis_source
CommitEnvs ==
    [complete : BOOLEAN,
     comments : BoundedSeq(CommentKinds, MaxComments),
     fetch_ok : BOOLEAN,
     closed_ok : BOOLEAN,
     checklist : [SourceFiles -> { "[x]", "[ ]", "none" }],
     present : SUBSET SourceFiles]

\* a loop that takes the oldest comment with a block
OldestBlock(all_comments) ==
    LET blocks == { i \in 1..Len(all_comments) : all_comments[i] # "plain" }
    IN  IF blocks = {} THEN "plain"
        ELSE all_comments[CHOOSE i \in blocks : \A j \in blocks : i <= j]

\* lines 43-54: reversed(all_comments), the first comment the pattern matches
NewestBlock(all_comments) ==
    LET blocks == { i \in 1..Len(all_comments) : all_comments[i] # "plain" }
    IN  IF blocks = {} THEN "plain"
        ELSE all_comments[CHOOSE i \in blocks : \A j \in blocks : i >= j]

\* lines 17-60: the object returned, or "exit 1"
fetch_comments_and_approved_json(fetch_ok, all_comments) ==
    IF ~fetch_ok THEN "exit 1"
    ELSE IF NewestBlock(all_comments) \in { "plain", "unparsable", "empty" } THEN "exit 1"
    ELSE NewestBlock(all_comments)

\* parse_files_from_checklist (lines 200-228) for one check status
FilesWithStatus(checklist, check_status) == { f \in SourceFiles : checklist[f] = check_status }

CommitEnds(end) == commit_pc' = "ended" /\ commit_end' = end

\* lines 299-323: the environment, the comments, the vendor name, the date
CommitStart ==
    /\ commit_pc = "start"
    /\ IF ~commit_env.complete THEN CommitEnds("exit 1") /\ UNCHANGED commit_summary
       ELSE LET summary_data ==
                    fetch_comments_and_approved_json(commit_env.fetch_ok, commit_env.comments)
            IN  IF summary_data = "exit 1" THEN CommitEnds("exit 1") /\ UNCHANGED commit_summary
                ELSE IF summary_data = "null name"
                THEN CommitEnds("AttributeError") /\ commit_summary' = summary_data
                ELSE IF ~commit_env.closed_ok
                THEN CommitEnds("ValueError") /\ commit_summary' = summary_data
                ELSE /\ commit_pc' = "registry"
                     /\ commit_summary' = summary_data
                     /\ UNCHANGED commit_end
    /\ UNCHANGED <<commit_env, commit_writes, commit_source, commit_archive>>
    /\ UNCHANGED nonCommitVars

\* line 326: update_central_json returns early without a processor_name
CommitRegistry ==
    /\ commit_pc = "registry"
    /\ commit_writes' = IF commit_summary = "nameless" THEN commit_writes
                        ELSE Append(commit_writes, "registry")
    /\ commit_pc' = "audit"
    /\ UNCHANGED <<commit_env, commit_end, commit_summary, commit_source, commit_archive>>
    /\ UNCHANGED nonCommitVars

\* line 329 and lines 156-197: an IOError ends the process
CommitAudit ==
    /\ commit_pc = "audit"
    /\ \E written \in BOOLEAN :
         IF written
         THEN /\ commit_writes' = Append(commit_writes, "audit")
              /\ commit_pc' = "archive"
              /\ UNCHANGED commit_end
         ELSE CommitEnds("exit 1") /\ UNCHANGED commit_writes
    /\ UNCHANGED <<commit_env, commit_summary, commit_source, commit_archive>>
    /\ UNCHANGED nonCommitVars

\* a cleanup that leaves the checked files without an archived copy
cleanup_keeps_unarchived(checklist, source, archive) ==
    (FilesWithStatus(checklist, "[x]") \cap archive) \cup FilesWithStatus(checklist, "[ ]")

\* lines 271-297: the files cleanup_source_directory tries to delete
cleanup_source_directory(checklist, source, archive) ==
    FilesWithStatus(checklist, "[x]") \cup FilesWithStatus(checklist, "[ ]")

\* lines 332-333 and 230-269: every checked file that exists is read and
\* written with its header; an exception is printed and the loop goes on
CommitArchive ==
    /\ commit_pc = "archive"
    /\ \E archived \in SUBSET (FilesWithStatus(commit_env.checklist, "[x]") \cap commit_source) :
         /\ commit_archive' = archived
         /\ commit_writes' =
               commit_writes \o
               SelectSeq(<<"f1", "f2">>, LAMBDA f : f \in archived)
    /\ commit_pc' = "cleanup"
    /\ UNCHANGED <<commit_env, commit_end, commit_summary, commit_source>>
    /\ UNCHANGED nonCommitVars

\* line 336 and lines 271-297: unlink of every listed file that exists; an
\* OSError is printed
CommitCleanup ==
    /\ commit_pc = "cleanup"
    /\ \E undeletable \in SUBSET commit_source :
         commit_source' =
            commit_source \
               (cleanup_source_directory(commit_env.checklist, commit_source, commit_archive)
                   \ undeletable)
    /\ CommitEnds("exit 0")
    /\ UNCHANGED <<commit_env, commit_summary, commit_writes, commit_archive>>
    /\ UNCHANGED nonCommitVars

CommitInit ==
    /\ commit_env \in CommitEnvs
    /\ commit_pc = "start"
    /\ commit_end = "none"
    /\ commit_summary = "none"
    /\ commit_writes = <<>>
    /\ commit_source = commit_env.present
    /\ commit_archive = {}

CommitIdle ==
    /\ commit_env = [complete |-> FALSE, comments |-> <<>>, fetch_ok |-> FALSE,
                     closed_ok |-> FALSE, checklist |-> [f \in SourceFiles |-> "none"],
                     present |-> {}]
    /\ commit_pc = "start"
    /\ commit_end = "none"
    /\ commit_summary = "none"
    /\ commit_writes = <<>>
    /\ commit_source = {}
    /\ commit_archive = {}

(***************************************************************************)
(* The manifests: scripts/setup_rightbrain.py, scripts/update_model_manifest.py *)
(* and scripts/upsert_task_def.py                                          *)
(***************************************************************************)
MaxManifestWrites == 1
MaxUpserts == 3
MaxRevisions == 2

Environments == {"production", "staging"}
\* the task filename given to upsert_task_def, also the one alias of a model
TaskFile == "t.json"
EntryKeys == {TaskFile}
Ids == {"id1", "id2"}
\* "" is an entry without an id, and the None of a look-up that found nothing
EntryValues == Ids \cup {""}

\* a section of a manifest: filename -> id (task manifest), alias -> id (model manifest)
SectionsOver(values) == UNION { [D -> values] : D \in SUBSET EntryKeys }
ManifestSections == SectionsOver(EntryValues)
EmptySection == [k \in {} |-> ""]

\* A parsed manifest.  keys: which of "production" and "staging" are keys of
\* the dict; other: the remaining top-level entries (the flat task manifest of
\* the older format, the "models" entry of the older model manifest).
EmptyDict ==
    [keys |-> {}, production |-> EmptySection, staging |-> EmptySection, other |-> EmptySection]
Dicts ==
    { d \in [keys : SUBSET Environments, production : ManifestSections, staging : ManifestSections,
             other : ManifestSections] :
        \A e \in Environments : e \notin d.keys => d[e] = EmptySection }
ManifestFiles ==
    { [state |-> "absent", data |-> EmptyDict], [state |-> "corrupt", data |-> EmptyDict] }
    \cup { [state |-> "json", data |-> d] : d \in Dicts }

\* setup_rightbrain.py 141-148, upsert_task_def.py 42-49 and 117-124
InitTaskStructure(d) ==
    LET d1 == IF "production" \notin d.keys
              THEN [keys |-> Environments,
                    production |-> IF d.other # EmptySection /\ "staging" \notin d.keys
                                   THEN d.other ELSE EmptySection,
                    staging |-> EmptySection, other |-> EmptySection]
              ELSE d
    IN  IF "staging" \notin d1.keys
        THEN [d1 EXCEPT !.keys = @ \cup {"staging"}, !.staging = EmptySection]
        ELSE d1

\* update_model_manifest.py 63-80
InitModelStructure(d) ==
    LET d1 == IF "production" \notin d.keys
              THEN [keys |-> Environments, production |-> d.other,
                    staging |-> EmptySection, other |-> EmptySection]
              ELSE d
    IN  IF "staging" \notin d1.keys
        THEN [d1 EXCEPT !.keys = @ \cup {"staging"}, !.staging = EmptySection]
        ELSE d1

\* manifest_data[environment] = section
SetSection(d, environment, section) ==
    [d EXCEPT !.keys = @ \cup {environment}, ![environment] = section]

\* manifest_data[environment][task_filename] = {"name": ..., "id": task_id}
SetEntry(section, task_filename, task_id) ==
    [k \in DOMAIN section \cup {task_filename} |->
        IF k = task_filename THEN task_id ELSE section[k]]

\* json.load of the file where an absent or an unparsable file gives {}
LoadOrEmpty(file) == IF file.state = "json" THEN file.data ELSE EmptyDict

NoManifestCall ==
    [writer |-> "none", environment |-> "production", wrote |-> FALSE,
     before |-> [state |-> "absent", data |-> EmptyDict]]

\* setup_rightbrain.py main 130-202: the manifest is read, the tasks are
\* created, and the section of the environment is replaced by the created
\* tasks; with no task created the process exits before writing
SetupRightbrain ==
    \E environment \in Environments, env_task_manifest \in SectionsOver(Ids) :
        /\ manifest_steps < MaxManifestWrites
        /\ manifest_steps' = manifest_steps + 1
        /\ LET existing_manifest == InitTaskStructure(LoadOrEmpty(task_manifest))
           IN  IF env_task_manifest = EmptySection
               THEN /\ UNCHANGED task_manifest
                    /\ manifest_call' = [writer |-> "setup_rightbrain", environment |-> environment,
                                         wrote |-> FALSE, before |-> task_manifest]
               ELSE /\ task_manifest' =
                          [state |-> "json",
                           data |-> SetSection(existing_manifest, environment, env_task_manifest)]
                    /\ manifest_call' = [writer |-> "setup_rightbrain", environment |-> environment,
                                         wrote |-> TRUE, before |-> task_manifest]
        /\ UNCHANGED <<model_manifest, upsert_env, upsert_call, creates, upserts>>
        /\ UNCHANGED nonManifestVars

\* update_model_manifest.py update_manifest 47-110
UpdateModelManifest ==
    \E environment \in Environments, model_mapping \in SectionsOver(Ids) :
        /\ manifest_steps < MaxManifestWrites
        /\ manifest_steps' = manifest_steps + 1
        /\ model_manifest' =
               [state |-> "json",
                data |-> SetSection(InitModelStructure(LoadOrEmpty(model_manifest)),
                                    environment, model_mapping)]
        /\ manifest_call' = [writer |-> "update_manifest", environment |-> environment,
                             wrote |-> TRUE, before |-> model_manifest]
        /\ UNCHANGED <<task_manifest, upsert_env, upsert_call, creates, upserts>>
        /\ UNCHANGED nonManifestVars

\* the revisions an update response lists: the 'created' time of each; a
\* revision is named by its place in the list, 0 names none
RevisionLists == BoundedSeq(1..2, MaxRevisions)

\* upsert_task_def.py 178-183: sort by 'created', newest first (stable), take
\* the first
NewestRevision(revisions) ==
    LET newest == { i \in 1..Len(revisions) :
                      \A j \in 1..Len(revisions) : revisions[j] <= revisions[i] }
    IN  CHOOSE i \in newest : \A j \in newest : i <= j

Request(kind, task, revision) == [kind |-> kind, task |-> task, revision |-> revision]

NoUpsert ==
    [environment |-> "production", ran |-> FALSE, file_before |-> [state |-> "absent", data |-> EmptyDict],
     existing_task_id |-> "", requests |-> <<>>, revisions |-> <<>>, returned |-> "",
     rewritten |-> FALSE, end |-> "none"]

\* upsert_task_def.py 40-65
update_task_manifest(manifest_data, task_filename, task_id, environment) ==
    LET d == InitTaskStructure(manifest_data)
    IN  [state |-> "json",
         data |-> SetSection(d, environment, SetEntry(d[environment], task_filename, task_id))]

\* upsert_task_def.py main 113-226 for the task file TaskFile, in one
\* environment, for any answers of the task API
upsert_task_def(environment) ==
    IF task_manifest.state = "corrupt"
    THEN \* load_task_manifest: sys.exit at line 37
         /\ upsert_call' = [NoUpsert EXCEPT !.environment = environment, !.ran = TRUE,
                                            !.file_before = task_manifest, !.end = "exit 1"]
         /\ UNCHANGED <<task_manifest, creates>>
    ELSE LET manifest_data == InitTaskStructure(LoadOrEmpty(task_manifest))
             env_section == manifest_data[environment]
             existing_task_id == IF TaskFile \in DOMAIN env_section
                                 THEN env_section[TaskFile] ELSE ""
             started == [NoUpsert EXCEPT !.environment = environment, !.ran = TRUE,
                                         !.file_before = task_manifest,
                                         !.existing_task_id = existing_task_id]
             \* lines 215-226
             Finish(sent, new_task_id) ==
                 IF new_task_id = ""
                 THEN /\ upsert_call' = [sent EXCEPT !.end = "exit 1"]
                      /\ UNCHANGED <<task_manifest, creates>>
                 ELSE /\ creates' = creates
                             + Cardinality({ i \in 1..Len(sent.requests) :
                                               sent.requests[i].kind = "create" })
                      /\ IF new_task_id # existing_task_id
                         THEN /\ task_manifest' = update_task_manifest(manifest_data, TaskFile,
                                                                       new_task_id, environment)
                              /\ upsert_call' = [sent EXCEPT !.returned = new_task_id,
                                                             !.rewritten = TRUE, !.end = "done"]
                         ELSE /\ UNCHANGED task_manifest
                              /\ upsert_call' = [sent EXCEPT !.returned = new_task_id,
                                                             !.end = "done"]
             Failed(sent) ==
                 /\ upsert_call' = [sent EXCEPT !.end = "exit 1"]
                 /\ UNCHANGED <<task_manifest, creates>>
         IN  IF existing_task_id # ""
             THEN \* lines 163-196
                  \E update_ok \in BOOLEAN, revisions \in RevisionLists,
                     active_ok \in BOOLEAN, id \in EntryValues :
                      LET updated == [started EXCEPT
                                         !.requests = <<Request("update", existing_task_id, 0)>>,
                                         !.revisions = revisions]
                      IN  IF ~update_ok THEN Failed(updated)
                          ELSE IF revisions = <<>> THEN Finish(updated, id)
                          ELSE LET activated ==
                                       [updated EXCEPT !.requests =
                                           Append(@, Request("set active", existing_task_id,
                                                             NewestRevision(revisions)))]
                               IN  IF ~active_ok THEN Failed(activated)
                                   ELSE Finish(activated, id)
             ELSE \* lines 198-206
                  \E create_ok \in BOOLEAN, id \in EntryValues :
                      LET created == [started EXCEPT !.requests = <<Request("create", "", 0)>>]
                      IN  IF ~create_ok THEN Failed(created) ELSE Finish(created, id)

\* an upsert in the environment of the behaviour
UpsertTaskDef ==
    /\ upserts < MaxUpserts
    /\ upserts' = upserts + 1
    /\ upsert_task_def(upsert_env)
    /\ manifest_call' = [writer |-> "update_task_manifest", environment |-> upsert_env,
                         wrote |-> upsert_call'.rewritten, before |-> task_manifest]
    /\ UNCHANGED <<model_manifest, upsert_env, manifest_steps>>
    /\ UNCHANGED nonManifestVars

\* an upsert in either environment
UpsertInEnvironment ==
    \E environment \in Environments :
        /\ manifest_steps < MaxManifestWrites
        /\ manifest_steps' = manifest_steps + 1
        /\ upsert_task_def(environment)
        /\ manifest_call' = [writer |-> "update_task_manifest", environment |-> environment,
                             wrote |-> upsert_call'.rewritten, before |-> task_manifest]
        /\ UNCHANGED <<model_manifest, upsert_env, upserts>>
        /\ UNCHANGED nonManifestVars

ManifestIdle ==
    /\ task_manifest = [state |-> "absent", data |-> EmptyDict]
    /\ model_manifest = [state |-> "absent", data |-> EmptyDict]
    /\ manifest_call = NoManifestCall
    /\ manifest_steps = 0
    /\ upsert_env = "production"
    /\ upsert_call = NoUpsert
    /\ creates = 0
    /\ upserts = 0

\* any task manifest and any model manifest
ManifestInit ==
    /\ task_manifest \in ManifestFiles
    /\ model_manifest \in ManifestFiles
    /\ manifest_call = NoManifestCall
    /\ manifest_steps = 0
    /\ upsert_env = "production"
    /\ upsert_call = NoUpsert
    /\ creates = 0
    /\ upserts = 0

\* any task manifest, and the environment the upserts run in
UpsertInit ==
    /\ task_manifest \in ManifestFiles
    /\ model_manifest = [state |-> "absent", data |-> EmptyDict]
    /\ manifest_call = NoManifestCall
    /\ manifest_steps = 0
    /\ upsert_env \in Environments
    /\ upsert_call = NoUpsert
    /\ creates = 0
    /\ upserts = 0

(***************************************************************************)
(* scripts/update_existing_vendor.py: update_local_markdown_file           *)
(***************************************************************************)
MaxMarkdownUpdates == 2

\* "<! -- -->", lines 123 and 124: the start marker and the end marker are
\* the same text
START_MARKER == <<60, 33, 32, 45, 45, 32, 45, 45, 62>>
END_MARKER == <<60, 33, 32, 45, 45, 32, 45, 45, 62>>

\* str.split(sep)[0]
SplitFirst(s, sep) == IF Find(s, sep) = 0 - 1 THEN s ELSE SubSeq(s, 1, Find(s, sep))

\* what follows the first sep in s
AfterFirst(s, sep) == SubSeq(s, Find(s, sep) + Len(sep) + 1, Len(s))

\* str.split(sep)[1], for s with at least one sep
SplitSecond(s, sep) == SplitFirst(AfterFirst(s, sep), sep)

\* lines 127-140: the text written to the file
update_local_markdown_file(original_content, new_report_content) ==
    LET content_block == START_MARKER \o <<10>> \o new_report_content \o <<10>> \o END_MARKER
    IN  IF Find(original_content, START_MARKER) # 0 - 1
        THEN LET before_marker == SplitFirst(original_content, START_MARKER)
                 after_marker == IF Find(original_content, END_MARKER) # 0 - 1
                                 THEN SplitSecond(original_content, END_MARKER) ELSE <<>>
             IN  Strip(before_marker) \o <<10, 10>> \o content_block \o Strip(after_marker)
        ELSE Strip(original_content) \o <<10, 10>> \o content_block

\* the text of a vendor file outside the analysis block: "", "H", "H\n",
\* "\nH", " H H "
HumanTexts == { <<>>, <<72>>, <<72, 10>>, <<10, 72>>, <<32, 72, 32, 72, 32>> }
\* reports an earlier run left in the file: "O", "O\nO"
OldReports == { <<79>>, <<79, 10, 79>> }
\* final_report of this run: "N", "N\nN"
NewReports == { <<78>>, <<78, 10, 78>> }

\* a vendor file: without an analysis block, or with the block of an earlier
\* report between the markers
VendorFiles ==
    HumanTexts
    \cup { b \o START_MARKER \o <<10>> \o o \o <<10>> \o END_MARKER \o a :
             b \in HumanTexts, o \in OldReports, a \in HumanTexts }

\* main, lines 205-207 and 228: the file is read, and the function is called
\* with what was read
UpdateLocalMarkdownFile ==
    \E final_report \in NewReports :
        /\ Len(md_applied) < MaxMarkdownUpdates
        /\ md_file' = update_local_markdown_file(md_file, final_report)
        /\ md_prev' = md_file
        /\ md_applied' = Append(md_applied, final_report)
        /\ UNCHANGED md_at_start
        /\ UNCHANGED nonMarkdownVars

MarkdownInit ==
    /\ md_file \in VendorFiles
    /\ md_at_start = md_file
    /\ md_prev = md_file
    /\ md_applied = <<>>

MarkdownIdle ==
    /\ md_file = <<>>
    /\ md_at_start = <<>>
    /\ md_prev = <<>>
    /\ md_applied = <<>>

\* the discovery variables while another script is modelled
DiscoveryIdle ==
    /\ StageTwo(<<>>, <<>>, <<>>, {})

RegIdle ==
    /\ registry = [f \in Files |-> [state |-> "absent", records |-> <<>>]]
    /\ call = NoCall
    /\ before = <<>>

(***************************************************************************)
(* The specifications.                                                     *)
(***************************************************************************)
Init == RegInit /\ DiscoveryIdle /\ BodyIdle /\ TokenIdle /\ TaskIdle /\ MainIdle /\ AnalysisIdle /\ RaceIdle /\ FormIdle /\ LookupIdle /\ CommitIdle /\ ManifestIdle /\ MarkdownIdle

Next == UpdateCentralJson

Spec == Init /\ [][Next]_vars

InitDedup == RegIdle /\ DedupInit /\ BodyIdle /\ TokenIdle /\ TaskIdle /\ MainIdle /\ AnalysisIdle /\ RaceIdle /\ FormIdle /\ LookupIdle /\ CommitIdle /\ ManifestIdle /\ MarkdownIdle

NextDedup == DedupStep \/ DedupDone

SpecDedup == InitDedup /\ [][NextDedup]_vars

InitDiscovery == RegIdle /\ DiscoveryInit /\ BodyIdle /\ TokenIdle /\ TaskIdle /\ MainIdle /\ AnalysisIdle /\ RaceIdle /\ FormIdle /\ LookupIdle /\ CommitIdle /\ ManifestIdle /\ MarkdownIdle

NextDiscovery == DedupStep \/ DedupDone \/ FetchAndClassify \/ PostChecklist \/ Rerun

SpecDiscovery == InitDiscovery /\ [][NextDiscovery]_vars

InitChecklist == RegIdle /\ ChecklistInit /\ BodyIdle /\ TokenIdle /\ TaskIdle /\ MainIdle /\ AnalysisIdle /\ RaceIdle /\ FormIdle /\ LookupIdle /\ CommitIdle /\ ManifestIdle /\ MarkdownIdle

NextChecklist == RenderChecklist

SpecChecklist == InitChecklist /\ [][NextChecklist]_vars

InitBody == RegIdle /\ DiscoveryIdle /\ BodyInit /\ TokenIdle /\ TaskIdle /\ MainIdle /\ AnalysisIdle /\ RaceIdle /\ FormIdle /\ LookupIdle /\ CommitIdle /\ ManifestIdle /\ MarkdownIdle

NextBody == UpdateIssueBody

SpecBody == InitBody /\ [][NextBody]_vars

InitToken == RegIdle /\ DiscoveryIdle /\ BodyIdle /\ TokenInit /\ TaskIdle /\ MainIdle /\ AnalysisIdle /\ RaceIdle /\ FormIdle /\ LookupIdle /\ CommitIdle /\ ManifestIdle /\ MarkdownIdle

NextToken == GetRbToken \/ ClockStep

SpecToken == InitToken /\ [][NextToken]_vars

InitTask == RegIdle /\ DiscoveryIdle /\ BodyIdle /\ TokenIdle /\ TaskInit /\ MainIdle /\ AnalysisIdle /\ RaceIdle /\ FormIdle /\ LookupIdle /\ CommitIdle /\ ManifestIdle /\ MarkdownIdle

NextTask == RunRbTask

SpecTask == InitTask /\ [][NextTask]_vars

InitMain == RegIdle /\ DiscoveryIdle /\ BodyIdle /\ TokenIdle /\ TaskIdle /\ MainInit /\ AnalysisIdle /\ RaceIdle /\ FormIdle /\ LookupIdle /\ CommitIdle /\ ManifestIdle /\ MarkdownIdle

NextMain ==
    \/ MainStart
    \/ MainLegalDiscovery
    \/ MainLegalClassifier
    \/ MainSecurityDiscovery
    \/ MainSecurityClassifier
    \/ MainStageTwo

SpecMain == InitMain /\ [][NextMain]_vars

InitAnalysis ==
    RegIdle /\ DiscoveryIdle /\ BodyIdle /\ TokenIdle /\ TaskIdle /\ MainIdle /\ AnalysisInit /\ RaceIdle /\ FormIdle /\ LookupIdle /\ CommitIdle /\ ManifestIdle /\ MarkdownIdle

NextAnalysis ==
    \/ AnalysisStart
    \/ AnalysisLegal
    \/ AnalysisSecurity
    \/ AnalysisSynthesis
    \/ AnalysisPost

SpecAnalysis == InitAnalysis /\ [][NextAnalysis]_vars

InitRace ==
    RegIdle /\ DiscoveryIdle /\ BodyIdle /\ TokenIdle /\ TaskIdle /\ MainIdle /\ AnalysisIdle
        /\ RaceInit /\ FormIdle /\ LookupIdle /\ CommitIdle /\ ManifestIdle /\ MarkdownIdle

NextRace == Read \/ Write

SpecRace == InitRace /\ [][NextRace]_vars

InitField ==
    RegIdle /\ DiscoveryIdle /\ BodyIdle /\ TokenIdle /\ TaskIdle /\ MainIdle /\ AnalysisIdle
        /\ RaceIdle /\ FieldInit /\ LookupIdle /\ CommitIdle /\ ManifestIdle /\ MarkdownIdle

NextField == ParseFormField

SpecField == InitField /\ [][NextField]_vars

InitUrls ==
    RegIdle /\ DiscoveryIdle /\ BodyIdle /\ TokenIdle /\ TaskIdle /\ MainIdle /\ AnalysisIdle
        /\ RaceIdle /\ UrlsInit /\ LookupIdle /\ CommitIdle /\ ManifestIdle /\ MarkdownIdle

NextUrls == ParseUrls

SpecUrls == InitUrls /\ [][NextUrls]_vars

InitLookup ==
    RegIdle /\ DiscoveryIdle /\ BodyIdle /\ TokenIdle /\ TaskIdle /\ MainIdle /\ AnalysisIdle
        /\ RaceIdle /\ FormIdle /\ LookupInit /\ CommitIdle /\ ManifestIdle /\ MarkdownIdle

NextLookup == GetTaskIdByName \/ GetOrCreateTaskId

SpecLookup == InitLookup /\ [][NextLookup]_vars

InitCommit ==
    RegIdle /\ DiscoveryIdle /\ BodyIdle /\ TokenIdle /\ TaskIdle /\ MainIdle /\ AnalysisIdle
        /\ RaceIdle /\ FormIdle /\ LookupIdle /\ CommitInit /\ ManifestIdle /\ MarkdownIdle

NextCommit == CommitStart \/ CommitRegistry \/ CommitAudit \/ CommitArchive \/ CommitCleanup

SpecCommit == InitCommit /\ [][NextCommit]_vars

InitManifest ==
    RegIdle /\ DiscoveryIdle /\ BodyIdle /\ TokenIdle /\ TaskIdle /\ MainIdle /\ AnalysisIdle
        /\ RaceIdle /\ FormIdle /\ LookupIdle /\ CommitIdle /\ ManifestInit /\ MarkdownIdle

NextManifest == SetupRightbrain \/ UpdateModelManifest \/ UpsertInEnvironment

SpecManifest == InitManifest /\ [][NextManifest]_vars

InitUpsert ==
    RegIdle /\ DiscoveryIdle /\ BodyIdle /\ TokenIdle /\ TaskIdle /\ MainIdle /\ AnalysisIdle
        /\ RaceIdle /\ FormIdle /\ LookupIdle /\ CommitIdle /\ UpsertInit /\ MarkdownIdle

NextUpsert == UpsertTaskDef

SpecUpsert == InitUpsert /\ [][NextUpsert]_vars

InitMarkdown ==
    RegIdle /\ DiscoveryIdle /\ BodyIdle /\ TokenIdle /\ TaskIdle /\ MainIdle /\ AnalysisIdle
        /\ RaceIdle /\ FormIdle /\ LookupIdle /\ CommitIdle /\ ManifestIdle /\ MarkdownInit

NextMarkdown == UpdateLocalMarkdownFile

SpecMarkdown == InitMarkdown /\ [][NextMarkdown]_vars

(***************************************************************************)
(* Claims about update_central_json                                        *)
(***************************************************************************)
CalledUsable == call.vendor_type # "none" /\ Usable(call.processor_name)

Written == registry[JsonFile(call.vendor_type)].records

StoredRecord ==
    Written[CHOOSE i \in 1..Len(Written) : Written[i].processor_name = call.processor_name]

\* the number of days the review interval has for a risk rating
IntervalOf(risk_rating) ==
    IF risk_rating = "High" THEN 180 ELSE IF risk_rating = "Low" THEN 730 ELSE 365

\* C1: for a record with a usable processor_name and a valid ISSUE_CLOSED_AT,
\* update_central_json stores last_review_date = the closed date and
\* next_review_date = that date + 180 days (High), 730 days (Low) or 365 days
\* (Medium or absent); 2025-01-01 with High gives 2025-06-30.
C1_ReviewDatesStored ==
    (CalledUsable /\ call.closed_at \in ClosedDays) =>
        /\ StoredRecord.last_review_date = Strftime(call.closed_at)
        /\ StoredRecord.next_review_date =
               Strftime(call.closed_at + IntervalOf(call.risk_rating))
        /\ (call.closed_at = 0 /\ call.risk_rating = "High")
               => StoredRecord.next_review_date = <<2025, 6, 30>>

IsNewRecord(r) ==
    r.processor_name = call.processor_name /\ r.risk_rating = call.risk_rating

SortedByNameIgnoringCase(s) ==
    \A i, j \in 1..Len(s) :
        i < j => ~StrLess(Lower(s[j].processor_name), Lower(s[i].processor_name))

\* s with element x put in at position k
InsertedAt(s, k, x) == SubSeq(s, 1, k - 1) \o <<x>> \o SubSeq(s, k, Len(s))

IssueSeeds == { legal_urls[i] : i \in 1..Len(legal_urls) }
              \cup { security_urls[i] : i \in 1..Len(security_urls) }

\* the URLs the discovery results report for linked documents
ReportedLinkedUrls ==
    { all_discovered_documents[i].absolute_url :
        i \in { k \in 1..Len(all_discovered_documents) :
                  /\ all_discovered_documents[k].kind = "dict"
                  /\ all_discovered_documents[k].link_type = "linked"
                  /\ all_discovered_documents[k].absolute_url # <<>> } }

TimesReported(url) ==
    Cardinality({ k \in 1..Len(all_discovered_documents) :
                    /\ all_discovered_documents[k].link_type = "linked"
                    /\ all_discovered_documents[k].absolute_url = url })

TimesMerged(url) ==
    Cardinality({ k \in 1..Len(unique_linked_docs) : unique_linked_docs[k].absolute_url = url })

\* C3: after the de-duplication stage no URL occurs twice in the list of
\* documents to fetch, none of them is a seed URL of the issue, and every
\* reported linked URL that is not a seed occurs in it (exactly once); URLs
\* are compared as exact strings, so u and u/ are two URLs.
C3_EachUrlOnce ==
    pc = "fetch" =>
        /\ \A u \in Urls : TimesMerged(u) <= 1
        /\ \A u \in IssueSeeds : TimesMerged(u) = 0
        /\ \A u \in ReportedLinkedUrls \ IssueSeeds : TimesMerged(u) = 1
        /\ \A k \in 1..Len(unique_linked_docs) :
              unique_linked_docs[k].absolute_url \in ReportedLinkedUrls

\* the seed u was reported again, u/ was reported twice, and the merged list
\* holds u/ once
C3_Witness ==
    /\ pc = "fetch"
    /\ legal_urls = <<UrlU>>
    /\ TimesReported(UrlU) = 1
    /\ TimesReported(UrlUSlash) = 2
    /\ TimesMerged(UrlUSlash) = 1

ProcessedFiles ==
    (IF legal_urls # <<>> THEN {create_safe_filename(MainTCs, issue_number)} ELSE {})
    \cup (IF security_urls # <<>> THEN {create_safe_filename(MainSecurityPage, issue_number)} ELSE {})
    \cup { create_safe_filename(unique_linked_docs[k].document_name, issue_number) :
             k \in 1..Len(unique_linked_docs) }

\* C6: at the end of a run every file of the current issue that is on disk and
\* was not processed in this run is in the final checklist, tagged
\* "Previously Discovered".
C6_OrphansListed ==
    pc = "done" =>
        \A f \in disk :
            (f.issue = issue_number /\ f \notin ProcessedFiles) =>
                \E k \in 1..Len(posted.online) :
                    /\ posted.online[k].file = f
                    /\ \E t \in 1..Len(posted.online[k].tag) :
                          posted.online[k].tag[t] = "Previously Discovered"

\* the documents format_documents_as_checklist lists, in order
ListedDocs ==
    LET HasUrl(doc) == doc.document_url # <<>>
    IN  SelectSeq(classified_docs_for_checklist, HasUrl)

\* the rendered item of the k-th listed document (the seeds come first)
ItemOf(k) == posted.online[Len(legal_urls) + Len(security_urls) + k]

CategoriesMissing(doc) == ~doc.has_categories \/ doc.relevance_categories = <<>>

\* C7 as stated: [x] when relevance_status is "relevant", [ ] when it is
\* "irrelevant" or the categories are missing.
C7_BoxByStatusOrCategories ==
    pc = "rendered" =>
        \A k \in 1..Len(ListedDocs) :
            /\ ListedDocs[k].relevance_status = "relevant" => ItemOf(k).checked
            /\ (ListedDocs[k].relevance_status = "irrelevant" \/ CategoriesMissing(ListedDocs[k]))
                  => ~ItemOf(k).checked

\* C7, amended: [x] when relevance_status is "relevant", with or without
\* categories; [ ] when relevance_status is "irrelevant"; missing categories
\* give the tag "None" and leave the box to relevance_status.
C7_BoxByStatus ==
    pc = "rendered" =>
        /\ Len(posted.online) = Len(legal_urls) + Len(security_urls) + Len(ListedDocs)
        /\ \A k \in 1..Len(ListedDocs) :
              /\ ItemOf(k).url = ListedDocs[k].document_url
              /\ ListedDocs[k].relevance_status = "relevant" => ItemOf(k).checked
              /\ ListedDocs[k].relevance_status = "irrelevant" => ~ItemOf(k).checked
              /\ CategoriesMissing(ListedDocs[k]) => ItemOf(k).tag = <<"None">>

\* a relevant document without categories and an irrelevant one with a category
\* were rendered, the first checked and the second not
C7_Witness ==
    /\ pc = "rendered"
    /\ Len(ListedDocs) = 2
    /\ ListedDocs[1].relevance_status = "relevant"
    /\ ~ListedDocs[1].has_categories
    /\ ItemOf(1).checked
    /\ ListedDocs[2].relevance_status = "irrelevant"
    /\ ListedDocs[2].relevance_categories = <<"legal">>
    /\ ~ItemOf(2).checked

(***************************************************************************)
(* Claims about update_issue_body                                          *)
(***************************************************************************)
HasMarker(text) == marker_pos(text) # 0 - 1
\* the human-authored text of a body: what precedes the marker, or all of it
HumanText(text) == IF HasMarker(text) THEN SubSeq(text, 1, marker_pos(text)) ELSE text
StartsWith(s, t) == Len(t) <= Len(s) /\ SubSeq(s, 1, Len(t)) = t
\* a text without the whitespace it starts with
WithoutLeadingSpace(s) ==
    IF \A i \in 1..Len(s) : s[i] \in Whitespace THEN <<>>
    ELSE SubSeq(s, CHOOSE i \in 1..Len(s) :
                     s[i] \notin Whitespace /\ \A j \in 1..(i - 1) : s[j] \in Whitespace,
                Len(s))
FirstChars(s, n) == [i \in 1..(IF Len(s) < n THEN Len(s) ELSE n) |-> s[i]]

\* C8: update_issue_body leaves the human-authored text unchanged: with a
\* marker in the body the request carries the text before the marker exactly
\* as it was, followed by the new content; without a marker it carries the
\* whole original text and, after it, the new content.
C8_HumanTextUnchanged ==
    patch.sent =>
        IF HasMarker(patch.original_body)
        THEN patch.body = HumanText(patch.original_body) \o patch.new_content
        ELSE /\ StartsWith(patch.body, patch.original_body)
             /\ EndsWith(patch.body, patch.new_content)

\* C8, amended: the request carries the human-authored text less the
\* whitespace at its start (with a marker) or at both ends (without one),
\* then, without a marker and with text left, the separator, then the new
\* content, all cut to the first 65,000 characters.
C8_HumanTextKept ==
    patch.sent =>
        LET human == HumanText(patch.original_body)
            kept == IF HasMarker(patch.original_body)
                    THEN WithoutLeadingSpace(human)
                    ELSE Strip(human)
            rule == IF ~HasMarker(patch.original_body) /\ kept # <<>>
                    THEN Separator ELSE <<>>
        IN patch.body = FirstChars(kept \o rule \o patch.new_content, PayloadLimit)

\* a body with white space before its text and a marker after it was updated
C8_Witness ==
    /\ patch.sent
    /\ marker_pos(patch.original_body) > 1
    /\ patch.original_body[1] \in Whitespace
    /\ ~(\A i \in 1..marker_pos(patch.original_body) : patch.original_body[i] \in Whitespace)
    /\ body_outcome = "updated"
    /\ issue_body = patch.body

(***************************************************************************)
(* Claims about get_rb_token                                               *)
(***************************************************************************)
\* the last call came after a successful acquisition
AfterAcquisition == token_call.made /\ token_call.cache_before.set
\* ... and earlier than 60 seconds before the cached token expires
BeforeRenewalTime == token_call.at < token_call.cache_before.expiry - 60
ServedFromCache ==
    /\ token_call.returned = token_call.cache_before.token
    /\ token_call.requests_after = token_call.requests_before
    /\ token_call.cache_after = token_call.cache_before
RequestedOnce == token_call.requests_after = token_call.requests_before + 1
CacheReplaced ==
    /\ token_call.issued \in Tokens
    /\ token_call.returned = token_call.issued
    /\ token_call.cache_after =
         [set |-> TRUE, token |-> token_call.issued,
          expiry |-> token_call.responded_at + token_call.lifetime]
    /\ token_cache = token_call.cache_after

\* C9: a get_rb_token call made after a successful acquisition and earlier
\* than 60 seconds before the cached token's expiry returns the cached token
\* without a request; a call at or after that instant requests a new token and
\* replaces the cache.
C9_CacheUntilMargin ==
    AfterAcquisition =>
        IF BeforeRenewalTime THEN ServedFromCache
        ELSE RequestedOnce /\ CacheReplaced

\* C9, amended: as above, but the later call replaces the cache only when the
\* token endpoint answers with a token; otherwise the process ends and the
\* cache is as it was.
C9_CacheUntilMarginOrExit ==
    AfterAcquisition =>
        IF BeforeRenewalTime THEN ServedFromCache
        ELSE /\ RequestedOnce
             /\ IF token_call.response = "ok" THEN CacheReplaced
                ELSE /\ token_state = "exit"
                     /\ token_call.returned = NoToken
                     /\ token_call.cache_after = token_call.cache_before
                     /\ token_cache = token_call.cache_before

\* a call inside the last 60 seconds of the cached token got another token
C9_Witness ==
    /\ AfterAcquisition
    /\ token_call.at >= token_call.cache_before.expiry - 60
    /\ token_call.at < token_call.cache_before.expiry
    /\ token_call.response = "ok"
    /\ token_call.returned # token_call.cache_before.token
    /\ token_cache.token = token_call.returned

(***************************************************************************)
(* Claims about run_rb_task                                                *)
(***************************************************************************)
\* RB_ORG_ID, RB_PROJECT_ID and the client credentials are set
CalledWithConfiguration ==
    /\ task_call.made
    /\ task_env.org_id /\ task_env.project_id
    /\ task_env.client_id /\ task_env.client_secret
Is2xx(status) == status >= 200 /\ status <= 299
ErrorObject == task_call.result.is_error /\ task_call.result.error # ""
DecodedResponse ==
    /\ ~task_call.result.is_error
    /\ task_call.result.body = task_call.response.body

\* C10: run_rb_task, called with the org/project configuration present,
\* never raises: it returns an is_error object with the failure details for
\* every transport failure and every non-2xx response, and the full decoded
\* response for a 2xx response.
C10_NeverRaises ==
    CalledWithConfiguration =>
        /\ task_call.result.kind = "returned"
        /\ task_call.posted =>
             IF task_call.response.kind = "response" /\ Is2xx(task_call.response.status)
             THEN DecodedResponse
             ELSE ErrorObject

\* API_ROOT is set, or rightbrain.config.json is missing or holds a JSON object
ApiRootResolvable ==
    task_env.api_root # <<>> \/ task_env.config \in { "absent", "object" }

\* C10, amended: with the configuration present and the API root resolvable
\* run_rb_task returns: an is_error object with the failure details for a
\* missing task id, for every transport failure, for every 4xx or 5xx response
\* and for every other response whose body is not JSON, and the decoded body
\* for every other response; with an unreadable config file and no API_ROOT
\* it ends the process, and with a config file that is not a JSON object and
\* no API_ROOT it raises.
C10_ReturnsWhenRootResolves ==
    CalledWithConfiguration =>
        IF task_call.task_id = <<>>
        THEN task_call.result.kind = "returned" /\ ErrorObject /\ ~task_call.posted
        ELSE IF ApiRootResolvable
        THEN /\ task_call.result.kind = "returned"
             /\ task_call.posted
             /\ IF /\ task_call.response.kind = "response"
                   /\ task_call.response.status < 400
                   /\ task_call.response.body \in TaskBodies
                THEN DecodedResponse
                ELSE ErrorObject
        ELSE /\ ~task_call.posted
             /\ task_call.result.kind =
                  (IF task_env.config = "corrupt" THEN "exit" ELSE "AttributeError")

\* the task runner answered 500 and the caller got an error object
C10_Witness ==
    /\ CalledWithConfiguration
    /\ task_call.posted
    /\ task_call.response.kind = "response"
    /\ task_call.response.status = 500
    /\ task_call.result.kind = "returned"
    /\ task_call.result.is_error

(***************************************************************************)
(* Claims about the failures of a discovery run                            *)
(***************************************************************************)
\* the fetch+classify task failed for the URL or returned no text
FetchFailed(url) == remote[url].known /\ (remote[url].is_error \/ remote[url].text = "")

DiscoveryFailed ==
    \E i \in 1..Len(main_calls) : main_calls[i].task = "discovery" /\ main_calls[i].is_error
ChecklistWritten ==
    \E i \in 1..Len(main_patches) : main_patches[i].new_content = ChecklistComment

\* C12: a discovery run in which the discovery task failed for a seed is not
\* aborted: it goes on to the end and a checklist is posted to the issue.
C12_DiscoveryFailureTolerated ==
    (main_pc = "ended" /\ DiscoveryFailed) =>
        /\ main_end \notin { "exit 1", "TypeError" }
        /\ ChecklistWritten

\* the seed URLs of the run, read from the issue body
RunSeeds ==
    LET legal == parse_urls_from_issue_form(main_env.issue_body, LabelTCs)
        security == parse_urls_from_issue_form(main_env.issue_body, LabelSecurity)
    IN  { legal[i] : i \in 1..Len(legal) } \cup { security[i] : i \in 1..Len(security) }
\* how many times the fetch+classify task was invoked for the URL
TimesClassified(url) ==
    Cardinality({ i \in 1..Len(main_calls) :
                    /\ main_calls[i].task = "classifier"
                    /\ main_calls[i].sent
                    /\ main_calls[i].url = url })

\* C13: at the end of a discovery run whose discovery tasks succeeded the
\* fetch+classify task has been invoked exactly once for each seed URL and
\* for each de-duplicated discovered URL.
C13_ClassifiedExactlyOnce ==
    (main_pc = "ended" /\ main_calls # <<>> /\ ~DiscoveryFailed) =>
        /\ \A url \in RunSeeds : TimesClassified(url) = 1
        /\ \A i \in 1..Len(main_docs) :
             (main_docs[i].kind = "dict" /\ main_docs[i].link_type = "linked"
                /\ main_docs[i].absolute_url # <<>>) =>
                 TimesClassified(main_docs[i].absolute_url) = 1

\* the update that carries the checklist failed
FinalUpdateFailed(i) ==
    /\ i \in 1..Len(main_patches)
    /\ main_patches[i].new_content = ChecklistComment
    /\ ~main_patches[i].ok

AnalysisRanTasks ==
    /\ analysis_pc = "ended"
    /\ analysis_env.legal_docs_text \/ analysis_env.security_docs_text
    /\ \E i \in 1..Len(analysis_requests) :
          analysis_requests[i] \in { "legal", "security", "report" }
\* the values of the failed tasks and of the skipped analyses
ValuesToShow ==
    { analysis_json[t] : t \in { "legal", "security", "report" } }
        \cap { v \in { analysis_json.legal, analysis_json.security, analysis_json.report } :
                 v.kind \in { "error", "skipped" } }

\* C15: an analysis run with compiled text is never aborted by the failure
\* of one of its three tasks: it posts exactly one result comment, which shows
\* the error value of every failed task and the skipped value of every
\* analysis without approved documents.
C15_FailuresShown ==
    AnalysisRanTasks =>
        /\ analysis_end = "exit 0"
        /\ Len(analysis_comments) = 1
        /\ ValuesToShow \subseteq analysis_comments[1].shows

\* C15 as the code has it: unless a task's answer is JSON that is no object
\* (AttributeError), the run ends with status 0 after exactly one comment,
\* which shows the error or skipped value of the legal and of the security
\* analysis; a failed synthesis is reported under "Synthesis Failed" and
\* its own error value is not shown.
C15_AnalysisFailuresShown ==
    (AnalysisRanTasks /\ analysis_end # "AttributeError") =>
        /\ analysis_end = "exit 0"
        /\ Len(analysis_comments) = 1
        /\ \A t \in { "legal", "security" } :
              analysis_json[t].kind \in { "error", "skipped" }
                  => analysis_json[t] \in analysis_comments[1].shows
        /\ analysis_json.report.kind \in { "error", "empty" }
              => /\ analysis_comments[1].kind = "synthesis failed"
                 /\ analysis_json.report \notin analysis_comments[1].shows

C15_Witness ==
    /\ AnalysisRanTasks
    /\ analysis_end = "exit 0"
    /\ analysis_json.legal = TaskError("legal")
    /\ analysis_json.security = Skipped("security")
    /\ analysis_json.report = TaskError("report")
    /\ Len(analysis_comments) = 1

\* C16: when a required environment variable of consolidate_and_analyze is
\* missing or empty, the process makes no network request and ends with a
\* non-zero status.
C16_MissingVariableExits ==
    analysis_env.missing # {} =>
        /\ analysis_requests = <<>>
        /\ analysis_pc = "ended" => analysis_end = "exit 1"

(***************************************************************************)
(* Claim about two concurrent runs of update_central_json                  *)
(***************************************************************************)
\* both runs are done, and both read the file before either wrote it
BothReadFirst ==
    /\ \A job \in Runs : run_pc[job] = "done"
    /\ run_events[1].op = "read"
    /\ run_events[2].op = "read"
LaterWriter == run_events[4].by
EarlierWriter == run_events[3].by
RecordOf(records, name) ==
    { records[i] : i \in { j \in 1..Len(records) : records[j].processor_name = name } }

\* C17: when two runs of update_central_json for two different vendor
\* names both read the registry file before either writes it, the file
\* ends as the later writer alone would have left it: it has the later
\* writer's record, and for the earlier writer's vendor name it has what it
\* had before the two runs (the earlier writer's update is lost).
C17_LostUpdate ==
    BothReadFirst =>
        /\ shared_file.state = "array"
        /\ run_data[LaterWriter] \in RecordOf(shared_file.records,
                                             run_data[LaterWriter].processor_name)
        /\ RecordOf(shared_file.records, run_data[EarlierWriter].processor_name)
              = RecordOf(LoadRecords(file_at_start), run_data[EarlierWriter].processor_name)
        /\ Len(shared_file.records) <= Len(LoadRecords(file_at_start)) + 1

\* the interleaving is reachable, with an earlier writer whose record is new
C17_Witness ==
    /\ BothReadFirst
    /\ RecordOf(LoadRecords(file_at_start), run_data[EarlierWriter].processor_name) = {}
    /\ RecordOf(shared_file.records, run_data[EarlierWriter].processor_name) = {}

(***************************************************************************)
(* Claims about the parsers of the issue form                              *)
(***************************************************************************)
\* the positions where the line "### <label>" stands in the body
HeadingLines(body, label) ==
    { p \in 1..Len(body) :
        /\ p = 1 \/ body[p - 1] = 10
        /\ p + Len(label) + 3 <= Len(body)
        /\ SubSeq(body, p, p + Len(label) + 3) = HeadingMark \o label
        /\ p + Len(label) + 4 > Len(body) \/ body[p + Len(label) + 4] = 10 }
\* the text between the first such heading and the next "### " heading
TextUnderHeading(body, label) ==
    LET p == CHOOSE x \in HeadingLines(body, label) : \A y \in HeadingLines(body, label) : x <= y
        from == p + Len(label) + 4
        stops == { e \in from..(Len(body) + 1) :
                     \/ e = Len(body) + 1
                     \/ /\ e + 4 <= Len(body)
                        /\ SubSeq(body, e, e + 4) = <<10, 35, 35, 35, 32>> }
    IN  SubSeq(body, from, (CHOOSE e \in stops : \A f \in stops : e <= f) - 1)
Trimmed(text) ==
    LET inner == { i \in 1..Len(text) : text[i] \notin Whitespace }
    IN  IF inner = {} THEN <<>>
        ELSE SubSeq(text, CHOOSE i \in inner : \A j \in inner : i <= j,
                          CHOOSE i \in inner : \A j \in inner : i >= j)
FieldExpected(body, label) ==
    IF HeadingLines(body, label) = {} THEN NA ELSE Trimmed(TextUnderHeading(body, label))

\* C18: parse_form_field, in both modules, returns the trimmed text
\* between the heading of the label and the next heading or the end of
\* the body, the empty text included, and "N/A" when the heading is absent.
C18_FieldBetweenHeadings ==
    form_parsed = "parse_form_field" =>
        /\ form_value.field = FieldExpected(form_body, form_label)
        /\ form_value.api_field = FieldExpected(form_body, form_label)

\* the http(s) tokens of a text: each starts at "http://" or "https://"
\* and runs to the next white space
TokenStarts(text) ==
    { q \in 1..Len(text) :
        \/ /\ q + 6 <= Len(text)
           /\ SubSeq(text, q, q + 6) = <<104, 116, 116, 112, 58, 47, 47>>
        \/ /\ q + 7 <= Len(text)
           /\ SubSeq(text, q, q + 7) = <<104, 116, 116, 112, 115, 58, 47, 47>> }
TokenAt(text, q) ==
    LET stops == { e \in q..(Len(text) + 1) : e = Len(text) + 1 \/ text[e] \in Whitespace }
    IN  SubSeq(text, q, (CHOOSE e \in stops : \A f \in stops : e <= f) - 1)
\* . , ; : ! ? )
Punctuation == { 46, 44, 59, 58, 33, 63, 41 }
RECURSIVE WithoutTrailingPunctuation(_)
WithoutTrailingPunctuation(url) ==
    IF url # <<>> /\ url[Len(url)] \in Punctuation
    THEN WithoutTrailingPunctuation(SubSeq(url, 1, Len(url) - 1))
    ELSE url
IsAttachment(url) ==
    /\ Len(url) >= Len(AttachmentPrefix)
    /\ SubSeq(url, 1, Len(AttachmentPrefix)) = AttachmentPrefix
UrlsExpected(body, label) ==
    IF HeadingLines(body, label) = {} THEN {}
    ELSE LET block == TextUnderHeading(body, label)
             urls == { WithoutTrailingPunctuation(TokenAt(block, q)) : q \in TokenStarts(block) }
         IN  { u \in urls : ~IsAttachment(u) }

\* C19: parse_urls_from_issue_form returns all the distinct http(s) URLs of
\* the field's block, without trailing punctuation and without the URLs of
\* GitHub's attachment storage.
C19_AllUrlsOfBlock ==
    form_parsed = "parse_urls_from_issue_form" =>
        { form_value.urls[i] : i \in 1..Len(form_value.urls) }
            = UrlsExpected(form_body, form_label)

(***************************************************************************)
(* Claim about the look-up of a task id by name                            *)
(***************************************************************************)
Traced(what) == \E i \in 1..Len(lookup_trace) : lookup_trace[i] = what
ManifestNamesTask ==
    get_task_id_by_name(lookup_env.manifest, lookup_env.files, "asked").kind = "id"

\* C20: a look-up of a task id by name consults the local manifest
\* first; when the manifest is missing or does not name the task, it makes
\* the listing request to the task-runner API, and only after that request
\* does it report that the task is not found.
C20_ManifestThenListing ==
    lookup_call # "none" =>
        /\ lookup_env.manifest.kind # "absent" => Traced("manifest") /\ lookup_trace[1] = "manifest"
        /\ ~ManifestNamesTask => Traced("list")
        /\ lookup_result.kind = "None" => Traced("list")

(***************************************************************************)
(* Claim about a sequence of issue-body updates                            *)
(***************************************************************************)
\* the number of places where one of the two markers stands in a text
MarkerCount(text) ==
    Cardinality({ i \in 1..Len(text) :
                    /\ text[i] = 60
                    /\ \/ /\ i + Len(CHECKLIST_MARKER) - 1 <= Len(text)
                          /\ SubSeq(text, i, i + Len(CHECKLIST_MARKER) - 1) = CHECKLIST_MARKER
                       \/ /\ i + Len(FAILURE_MARKER) - 1 <= Len(text)
                          /\ SubSeq(text, i, i + Len(FAILURE_MARKER) - 1) = FAILURE_MARKER })
\* updates were applied to a body that had no marker at the start
UpdatedFromPlainBody == MarkerCount(body_at_start) = 0 /\ applied # <<>>
LatestBlock == applied[Len(applied)]
\* the same update was applied twice in a row, the second time just now
AppliedTwice ==
    /\ Len(applied) >= 2
    /\ applied[Len(applied)] = applied[Len(applied) - 1]
    /\ body_outcome = "updated"

CheckedAndDeleted ==
    { f \in SourceFiles :
        commit_env.checklist[f] = "[x]" /\ f \in commit_env.present /\ f \notin commit_source }

\* C22: a checked source file is deleted from _vendor_analysis_source
\* only when its archived copy was written; a file whose archiving failed
\* is not deleted by the cleanup.
C22_DeletedOnlyIfArchived == CheckedAndDeleted \subseteq commit_archive

\* the newest comment with a block, found from the end of the list
RECURSIVE LatestApproval(_)
LatestApproval(comments) ==
    IF comments = <<>> THEN "plain"
    ELSE IF comments[Len(comments)] # "plain" THEN comments[Len(comments)]
    ELSE LatestApproval(SubSeq(comments, 1, Len(comments) - 1))
\* the comments were fetched and main is past fetch_comments_and_approved_json
CommentsFetched == commit_env.complete /\ commit_env.fetch_ok /\ commit_pc # "start"

CompleteRunWithSeed ==
    /\ main_env.variables = "set"
    /\ main_env.gh_token = "set"
    /\ main_env.manifest = "ids"
    /\ RunSeeds # {}
FailureWriteAttempted ==
    \E i \in 1..Len(main_patches) : main_patches[i].new_content = FailureReport

\* C25: a discovery run with complete configuration and a seed URL ends
\* either with the checklist written to the issue body, or with an attempted
\* write of the failure report and a non-zero exit, whatever the remote
\* tasks return.
C25_ChecklistOrFailureReport ==
    (main_pc = "ended" /\ CompleteRunWithSeed) =>
        \/ ChecklistWritten
        \/ FailureWriteAttempted /\ main_end = "exit 1"

(***************************************************************************)
(* Further claims about update_central_json                                *)
(***************************************************************************)
DistinctNames(records) ==
    \A i, j \in 1..Len(records) :
        i # j => records[i].processor_name # records[j].processor_name

NoDuplicateNames == \A f \in Files : DistinctNames(registry[f].records)

\* a step that is a call with a processor_name that is missing or "N/A"
SkippedCall == call'.vendor_type # "none" /\ call'.processor_name \in { NoName, NA }

\* C26: starting from registry files that are absent, unparsable or hold
\* pairwise distinct names, no sequence of update_central_json calls leaves two
\* records with the same processor_name in a registry file, and a call whose
\* processor_name is missing or "N/A" changes neither file.
C26_NamesStayDistinct ==
    /\ []NoDuplicateNames
    /\ [][SkippedCall => registry' = registry]_vars

\* a name already in an array of two records was written again
C26_Witness ==
    /\ call.vendor_type # "none"
    /\ Len(before) = 2
    /\ Len(Written) = 2
    /\ \E i \in 1..2 : before[i].processor_name = call.processor_name
    /\ \E i \in 1..2 : Written[i].processor_name = call.processor_name

(***************************************************************************)
(* Claims about the manifests                                              *)
(***************************************************************************)
OtherEnvironment(e) == IF e = "production" THEN "staging" ELSE "production"

\* the manifest file the last call was about
ManifestWritten ==
    IF manifest_call.writer = "update_manifest" THEN model_manifest ELSE task_manifest

\* The section a manifest holds for an environment: the value of that key.
\* The older formats have no sections and are read as production: a task
\* manifest with neither key holds its entries, a model manifest without a
\* "production" key holds its "models".
SectionHeld(d, e, is_model_manifest) ==
    IF e \in d.keys THEN d[e]
    ELSE IF e = "production" /\ (is_model_manifest \/ d.keys = {}) THEN d.other
    ELSE EmptySection

SectionOfOther(d) ==
    SectionHeld(d, OtherEnvironment(manifest_call.environment),
                manifest_call.writer = "update_manifest")

\* C28: when the task manifest or the model manifest is written for one
\* environment and the existing file parses, the section of the other
\* environment is afterwards what it was in the existing file, also when the
\* existing file has only a staging section.
C28_OtherSectionKept ==
    (manifest_call.wrote /\ manifest_call.before.state = "json") =>
        SectionOfOther(ManifestWritten.data) = SectionOfOther(manifest_call.before.data)

\* the id the manifest held for the task file in the environment of the upsert
StoredTaskId ==
    LET section == SectionHeld(upsert_call.file_before.data, upsert_call.environment, FALSE)
    IN  IF TaskFile \in DOMAIN section THEN section[TaskFile] ELSE ""

RequestKinds == [i \in 1..Len(upsert_call.requests) |-> upsert_call.requests[i].kind]

\* C29: upsert_task_def sends a create request only when the manifest holds
\* no id for the environment and the task file; with an id it sends the update
\* request and then the set-active request for the newest revision, both for
\* that id, and no create request; the upserts of one file in one environment
\* that succeed create at most one task; the manifest is rewritten only when
\* the returned id differs from the stored one.
C29_CreateOnlyWithoutId ==
    upsert_call.ran =>
        /\ (\E i \in 1..Len(RequestKinds) : RequestKinds[i] = "create") => StoredTaskId = ""
        /\ (StoredTaskId # "" /\ upsert_call.end = "done") =>
              /\ RequestKinds = <<"update", "set active">>
              /\ \A i \in 1..2 : upsert_call.requests[i].task = StoredTaskId
              /\ \A j \in 1..Len(upsert_call.revisions) :
                    upsert_call.revisions[j]
                        <= upsert_call.revisions[upsert_call.requests[2].revision]
        /\ creates <= 1
        /\ upsert_call.rewritten => upsert_call.returned # StoredTaskId

(***************************************************************************)
(* Claim about update_local_markdown_file                                  *)
(***************************************************************************)
\* the places where the marker stands in a text
MarkerPlaces(text) ==
    { i \in 1..(Len(text) - Len(START_MARKER) + 1) :
        SubSeq(text, i, i + Len(START_MARKER) - 1) = START_MARKER }

\* the file had an analysis block when the run started, and was updated
HadBlockAndUpdated == Cardinality(MarkerPlaces(md_at_start)) = 2 /\ md_applied # <<>>

\* the text between the first marker and the next one
BlockText(text) ==
    LET places == MarkerPlaces(text)
        open == CHOOSE i \in places : \A j \in places : i <= j
        close == CHOOSE i \in places \ {open} : \A j \in places \ {open} : i <= j
    IN  SubSeq(text, open + Len(START_MARKER), close - 1)

\* C30: update_local_markdown_file on a file that has an analysis block gives
\* a file with exactly one analysis block, which holds the new report and
\* nothing else; no text of the earlier report is left in the file; and a
\* second application with the same report gives the same file again.
C30_BlockReplaced ==
    HadBlockAndUpdated =>
        /\ Cardinality(MarkerPlaces(md_file)) = 2
        /\ BlockText(md_file) = <<10>> \o md_applied[Len(md_applied)] \o <<10>>
        /\ \A i \in 1..Len(md_file) : md_file[i] # 79
        /\ (Len(md_applied) = 2 /\ md_applied[1] = md_applied[2]) => md_file = md_prev
====
